---------------------------- MODULE Spec2Model ----------------------------
(***************************************************************************)
(* A model of the btc-analyzer analytics engine: the time series helpers,  *)
(* the technical indicators (RSI, EMA, MACD, Bollinger bands), the         *)
(* statistics primitives, the support/resistance detector and the          *)
(* orchestrator (PerformComprehensiveAnalysis, GetTradingSignals,          *)
(* GenerateReport).                                                        *)
(*                                                                         *)
(* float64 values are modelled as exact rationals <<num, den>> (den > 0,   *)
(* lowest terms); math.Sqrt is modelled at a fixed resolution.  A Go slice *)
(* is a sequence; At(s, i) reads Go's s[i] (0-based).  An index outside a  *)
(* slice is a runtime panic in Go; the operations that can reach one       *)
(* return a record whose field `panic` says so.                            *)
(***************************************************************************)
EXTENDS Integers, Sequences, FiniteSets, TLC

VARIABLES
    bts,        \* the caller's series (types.BTCTimeSeries.Data), mutated by Sort
    loaded,     \* the series as the caller loaded it (history, never changed)
    runs,       \* the aggregates returned by the calls of PerformComprehensiveAnalysis
    signals,    \* the mapping returned by the last GetTradingSignals, as <<name, label>> pairs
    report,     \* the lines of the last GenerateReport
    panicked,   \* a call ended in a Go runtime panic (index out of range)
    call,       \* indicator library: the last call, [op, args]
    out,        \* indicator library: the slice CalculateRSI or calculateEMA returned
    macd,       \* indicator library: the types.MACDData CalculateMACD returned
    ret,        \* library: what the last call of another function returned
    pc,         \* command line run: the step main has reached
    issues      \* command line run: the list ValidateData returned

vars == <<bts, loaded, runs, signals, report, panicked, call, out, macd, ret, pc, issues>>

NoCall == [op |-> "none", args |-> <<>>]

---------------------------------------------------------------------------
(* float64 arithmetic as exact rational arithmetic *)

Abs(x) == IF x < 0 THEN -x ELSE x

RECURSIVE GCD(_, _)
GCD(a, b) == IF b = 0 THEN a ELSE GCD(b, a % b)

Norm(n, d) ==
    LET g == GCD(Abs(n), Abs(d))
        s == IF d < 0 THEN -1 ELSE 1
    IN  <<(s * n) \div g, (s * d) \div g>>

F(i) == <<i, 1>>

Zero == F(0)

RAdd(a, b) ==
    LET g == GCD(a[2], b[2])
    IN  Norm(a[1] * (b[2] \div g) + b[1] * (a[2] \div g), (a[2] \div g) * b[2])

RNeg(a) == <<-a[1], a[2]>>

RSub(a, b) == RAdd(a, RNeg(b))

RMul(a, b) ==
    LET g1 == GCD(Abs(a[1]), b[2])
        g2 == GCD(Abs(b[1]), a[2])
    IN  Norm((a[1] \div g1) * (b[1] \div g2), (a[2] \div g2) * (b[2] \div g1))

\* a / b for b # 0
RDiv(a, b) == RMul(a, Norm(b[2], b[1]))

\* a < b and a <= b: by the numerators over a common denominator, else by the
\* sign of a - b
RLt(a, b) == IF a[2] = b[2] THEN a[1] < b[1] ELSE RSub(a, b)[1] < 0

RLe(a, b) == IF a[2] = b[2] THEN a[1] <= b[1] ELSE RSub(a, b)[1] <= 0

RAbs(a) == <<Abs(a[1]), a[2]>>

RECURSIVE SumFrom(_, _, _)
\* the sum of s[i] over the Go indices lo .. hi-1 (the code adds them one by
\* one from the left; exact addition is associative, and halving the range
\* keeps the evaluation shallow)
SumFrom(s, lo, hi) ==
    IF lo >= hi THEN Zero
    ELSE IF hi = lo + 1 THEN s[hi]
    ELSE LET mid == (lo + hi) \div 2
         IN  RAdd(SumFrom(s, lo, mid), SumFrom(s, mid, hi))

\* Go's s[i]
At(s, i) == s[i + 1]

\* the slice taken from its start whatever lo is
SliceNotShifted(s, lo) == s

\* Go's s[lo:]
SliceFrom(s, lo) == SubSeq(s, lo + 1, Len(s))

\* make([]float64, n)
MakeZero(n) == [i \in 1..n |-> Zero]

---------------------------------------------------------------------------
(* internal/timeseries *)

\* the slice s rearranged so that element i comes at position rank[i]
Permuted(s, rank) ==
    SubSeq([k \in 1..Len(s) |-> s[CHOOSE i \in 1..Len(s) : rank[i] = k]], 1, Len(s))

\* bars of equal timestamp put in the reverse of their stored order
RankByTimestampTiesReversed(data, i) ==
    1 + Cardinality({j \in 1..Len(data) :
                        \/ data[j].ts < data[i].ts
                        \/ (data[j].ts = data[i].ts /\ j > i)})

\* the position at which an ascending sort by timestamp puts bar i (bars of
\* equal timestamp keep their order)
RankByTimestamp(data, i) ==
    1 + Cardinality({j \in 1..Len(data) :
                        \/ data[j].ts < data[i].ts
                        \/ (data[j].ts = data[i].ts /\ j < i)})

\* sort.Slice with less = Timestamp.Before: ascending by timestamp
SortData(data) ==
    Permuted(data, SubSeq([i \in 1..Len(data) |-> RankByTimestamp(data, i)], 1, Len(data)))

\* the call of sort.Slice left out
SortLeftOut(b) == b

Sort(b) == SortData(b)

GetClosePrices(b) == [i \in 1..Len(b) |-> F(b[i].close)]

GetVolumeData(b) == [i \in 1..Len(b) |-> F(b[i].volume)]

---------------------------------------------------------------------------
(* internal/indicators *)

\* lines 53-59: the RSI of the smoothed averages
RsiValueSignSlip(avgGain, avgLoss) ==
    IF avgLoss = Zero THEN F(100)
    ELSE RAdd(F(100), RDiv(F(100), RAdd(F(1), RDiv(avgGain, avgLoss))))

RsiValue(avgGain, avgLoss) ==
    IF avgLoss = Zero THEN F(100)
    ELSE RSub(F(100), RDiv(F(100), RAdd(F(1), RDiv(avgGain, avgLoss))))

Gain(change) == IF RLt(Zero, change) THEN change ELSE Zero

Loss(change) == IF RLt(Zero, change) THEN Zero ELSE RAbs(change)

\* lines 28-34: avgGain and avgLoss after the seeding loop over the first i changes
SeedGain(changes, i) == SumFrom([k \in 1..Len(changes) |-> Gain(changes[k])], 0, i)

SeedLoss(changes, i) == SumFrom([k \in 1..Len(changes) |-> Loss(changes[k])], 0, i)

\* lines 40-60: one round of the smoothing loop, at Go index st.i
RsiStep(changes, period, st) ==
    LET change == At(changes, st.i)
        g == RDiv(RAdd(RMul(st.avgGain, F(period - 1)), Gain(change)), F(period))
        l == RDiv(RAdd(RMul(st.avgLoss, F(period - 1)), Loss(change)), F(period))
    IN  [i |-> st.i + 1, avgGain |-> g, avgLoss |-> l,
         rsi |-> [st.rsi EXCEPT ![st.i - period + 1] = RsiValue(g, l)]]

RECURSIVE RsiLoop(_, _, _)
\* line 39: for i := period; i < len(changes); i++
RsiLoop(changes, period, st) ==
    IF st.i >= Len(changes) THEN st.rsi
    ELSE RsiLoop(changes, period, RsiStep(changes, period, st))

\* the result sized to the rounds of the smoothing loop
CalculateRSIOnePerRound(b, period) ==
    IF Len(b) < period + 1 THEN <<>>
    ELSE LET prices == GetClosePrices(b)
             changes == [i \in 1..(Len(prices) - 1) |-> RSub(prices[i + 1], prices[i])]
         IN  RsiLoop(changes, period,
                     [i |-> period,
                      avgGain |-> RDiv(SeedGain(changes, period), F(period)),
                      avgLoss |-> RDiv(SeedLoss(changes, period), F(period)),
                      rsi |-> MakeZero(Len(prices) - period - 1)])

CalculateRSI(b, period) ==
    IF Len(b) < period + 1 THEN <<>>
    ELSE LET prices == GetClosePrices(b)
             changes == [i \in 1..(Len(prices) - 1) |-> RSub(prices[i + 1], prices[i])]
         IN  RsiLoop(changes, period,
                     [i |-> period,
                      avgGain |-> RDiv(SeedGain(changes, period), F(period)),
                      avgLoss |-> RDiv(SeedLoss(changes, period), F(period)),
                      rsi |-> MakeZero(Len(prices) - period)])

\* line 115
MultiplierNoPlusOne(period) == RDiv(F(2), F(period))

Multiplier(period) == RDiv(F(2), F(period + 1))

RECURSIVE EmaLoop(_, _, _, _)
\* lines 125-127, from Go index i on
EmaLoop(prices, period, i, ema) ==
    IF i >= Len(ema) THEN ema
    ELSE EmaLoop(prices, period, i + 1,
                 [ema EXCEPT ![i + 1] =
                     RAdd(RMul(At(prices, period - 1 + i), Multiplier(period)),
                          RMul(At(ema, i - 1), RSub(F(1), Multiplier(period))))])

\* line 114: the length of the result
EmaLenOneShort(n, period) == n - period

EmaLen(n, period) == n - period + 1

calculateEMA(prices, period) ==
    IF Len(prices) < period THEN <<>>
    ELSE EmaLoop(prices, period, 1,
                 [MakeZero(EmaLen(Len(prices), period)) EXCEPT
                     ![1] = RDiv(SumFrom(prices, 0, period), F(period))])

\* lines 93-99: the histogram of a MACD line and its signal line
HistogramHeadAligned(macdLine, signalLine) ==
    [i \in 1..Len(signalLine) |->
        IF i - 1 < Len(macdLine) THEN RSub(At(macdLine, i - 1), signalLine[i]) ELSE Zero]

Histogram(macdLine, signalLine) ==
    LET startIdx2 == Len(macdLine) - Len(signalLine)
    IN  [i \in 1..Len(signalLine) |->
            IF startIdx2 + (i - 1) < Len(macdLine)
            THEN RSub(At(macdLine, startIdx2 + (i - 1)), signalLine[i])
            ELSE Zero]

EmptyMACD == [MACD |-> <<>>, Signal |-> <<>>, Histogram |-> <<>>]

CalculateMACD(b, fastPeriod, slowPeriod, signalPeriod) ==
    LET prices == GetClosePrices(b)
    IN  IF Len(prices) < slowPeriod THEN EmptyMACD
        ELSE LET fastEMA == calculateEMA(prices, fastPeriod)
                 slowEMA == calculateEMA(prices, slowPeriod)
                 startIdx == slowPeriod - fastPeriod
                 alignedFastEMA == SliceFrom(fastEMA, startIdx)
                 macdLine == [i \in 1..Len(slowEMA) |->
                                 IF i - 1 < Len(alignedFastEMA)
                                 THEN RSub(alignedFastEMA[i], slowEMA[i])
                                 ELSE Zero]
                 signalLine == calculateEMA(macdLine, signalPeriod)
             IN  [MACD |-> macdLine, Signal |-> signalLine,
                  Histogram |-> Histogram(macdLine, signalLine)]

RECURSIVE SqrtSearch(_, _, _)
\* the least r in lo..hi with r*r >= n
SqrtSearch(n, lo, hi) ==
    IF lo >= hi THEN lo
    ELSE LET mid == (lo + hi) \div 2
         IN  IF mid * mid >= n THEN SqrtSearch(n, lo, mid) ELSE SqrtSearch(n, mid + 1, hi)

\* math.Sqrt at a resolution of 1/100, rounded up: the least r/100 whose
\* square is at least q, so that Sqrt(q) = 0 exactly when q = 0
Sqrt(q) ==
    LET n == (q[1] * 10000 + q[2] - 1) \div q[2]
    IN  Norm(SqrtSearch(n, 0, IF n > 46340 THEN 46340 ELSE n), 100)

\* the squares summed without taking the mean off
SumSquaresAboutZero(s, mean, lo, hi) ==
    SumFrom([j \in 1..Len(s) |-> RMul(s[j], s[j])], lo, hi)

\* sumSquaredDiff += (s[j] - mean)^2 over the Go indices lo .. hi-1
SumSquaredDiff(s, mean, lo, hi) ==
    SumFrom([j \in 1..Len(s) |-> RMul(RSub(s[j], mean), RSub(s[j], mean))], lo, hi)

EmptyBands == [Upper |-> <<>>, Middle |-> <<>>, Lower |-> <<>>]

\* indicators.go:172-189
CalculateMovingAverage(b, period) ==
    IF Len(b) < period THEN <<>>
    ELSE LET prices == GetClosePrices(b)
             n == Len(prices) - period + 1
         IN  SubSeq([k \in 1..n |->
                        RDiv(SumFrom(prices, k - 1, k - 1 + period), F(period))], 1, n)

\* the window of `period` closes that ends at Go index i
BandSMA(prices, period, i) == RDiv(SumFrom(prices, i - period + 1, i + 1), F(period))

\* the variance of the window, the root not taken
BandVariance(prices, period, i) ==
    RDiv(SumSquaredDiff(prices, BandSMA(prices, period, i), i - period + 1, i + 1),
         F(period))

BandStdDev(prices, period, i) ==
    Sqrt(RDiv(SumSquaredDiff(prices, BandSMA(prices, period, i), i - period + 1, i + 1),
              F(period)))

CalculateBollingerBands(b, period, stdDevFactor) ==
    LET prices == GetClosePrices(b)
        n == Len(prices) - period + 1
    IN  IF Len(prices) < period THEN EmptyBands
        ELSE [Upper  |-> [k \in 1..n |-> RAdd(BandSMA(prices, period, k + period - 2),
                              RMul(stdDevFactor, BandStdDev(prices, period, k + period - 2)))],
              Middle |-> [k \in 1..n |-> BandSMA(prices, period, k + period - 2)],
              Lower  |-> [k \in 1..n |-> RSub(BandSMA(prices, period, k + period - 2),
                              RMul(stdDevFactor, BandStdDev(prices, period, k + period - 2)))]]

---------------------------------------------------------------------------
(* internal/statistics *)

\* the position at which an ascending sort puts value i
RankByValue(s, i) ==
    1 + Cardinality({j \in 1..Len(s) : RLt(s[j], s[i]) \/ (s[j] = s[i] /\ j < i)})

\* sort.Float64s left out
SortFloatsNoSort(s) == s

\* sort.Float64s
SortFloats(s) == Permuted(s, SubSeq([i \in 1..Len(s) |-> RankByValue(s, i)], 1, Len(s)))

\* types.Statistics{}; Skewness and Kurtosis (lines 50-66) are not modelled
ZeroStatistics ==
    [Count |-> 0, Mean |-> Zero, Median |-> Zero, StdDev |-> Zero,
     Min |-> Zero, Max |-> Zero, Variance |-> Zero]

Calculate(values) ==
    IF Len(values) = 0 THEN ZeroStatistics
    ELSE LET sortedValues == SortFloats(values)
             n == Len(values)
             mean == RDiv(SumFrom(values, 0, n), F(n))
             median == IF n % 2 = 0
                       THEN RDiv(RAdd(At(sortedValues, n \div 2 - 1),
                                      At(sortedValues, n \div 2)), F(2))
                       ELSE At(sortedValues, n \div 2)
             variance == RDiv(SumSquaredDiff(values, mean, 0, n), F(n))
         IN  [Count |-> n, Mean |-> mean, Median |-> median, StdDev |-> Sqrt(variance),
              Min |-> At(sortedValues, 0), Max |-> At(sortedValues, n - 1),
              Variance |-> variance]

\* the return taken over the current close instead of the previous one
SimpleReturnOverCurrent(prevPrice, currPrice) ==
    IF prevPrice > 0 /\ currPrice # 0 THEN RDiv(F(currPrice - prevPrice), F(currPrice))
    ELSE Zero

\* returns[i-1]; 0 when the previous close is not positive (lines 94-97)
SimpleReturn(prevPrice, currPrice) ==
    IF prevPrice > 0 THEN RDiv(F(currPrice - prevPrice), F(prevPrice)) ELSE Zero

\* logReturns[i-1] = math.Log(x) is held as x: 0 = ln(1) is held as 1
LogReturn(prevPrice, currPrice) ==
    IF prevPrice > 0 THEN RDiv(F(currPrice), F(prevPrice)) ELSE F(1)

CalculateReturns(b) ==
    IF Len(b) < 2 THEN [returns |-> <<>>, logReturns |-> <<>>]
    ELSE [returns    |-> [i \in 1..(Len(b) - 1) |-> SimpleReturn(b[i].close, b[i + 1].close)],
          logReturns |-> [i \in 1..(Len(b) - 1) |-> LogReturn(b[i].close, b[i + 1].close)]]

CalculateVolatility(returns, periodsPerYear) ==
    IF Len(returns) = 0 THEN Zero
    ELSE RMul(Calculate(returns).StdDev, Sqrt(F(periodsPerYear)))

\* the round with lines 130-132 keeping the latest drawdown, not the largest
DrawdownStepKeepsLatest(prices, st) ==
    LET price == prices[st.i]
        peak == IF RLt(st.peak, price) THEN price ELSE st.peak
    IN  [i |-> st.i + 1, peak |-> peak,
         maxDrawdown |-> IF peak # Zero THEN RDiv(RSub(peak, price), peak)
                         ELSE st.maxDrawdown,
         zeroDiv |-> st.zeroDiv \/ peak = Zero]

\* lines 126-132: one round of the loop, at the price of position st.i.
\* Closes are not negative, so a peak of 0 meets a price of 0: the quotient of
\* line 129 is then 0/0, a NaN that line 130 finds greater than nothing
DrawdownStep(prices, st) ==
    LET price == prices[st.i]
        peak == IF RLt(st.peak, price) THEN price ELSE st.peak
        grows == peak # Zero /\ RLt(st.maxDrawdown, RDiv(RSub(peak, price), peak))
    IN  [i |-> st.i + 1, peak |-> peak,
         maxDrawdown |-> IF grows THEN RDiv(RSub(peak, price), peak) ELSE st.maxDrawdown,
         zeroDiv |-> st.zeroDiv \/ peak = Zero]

RECURSIVE DrawdownLoop(_, _)
\* lines 125-133: the state the loop ends in
DrawdownLoop(prices, st) ==
    IF st.i > Len(prices) THEN st
    ELSE DrawdownLoop(prices, DrawdownStep(prices, st))

\* lines 122-133 on a non-empty slice of closes
DrawdownPass(prices) ==
    DrawdownLoop(prices, [i |-> 1, peak |-> prices[1], maxDrawdown |-> Zero,
                          zeroDiv |-> FALSE])

CalculateMaxDrawdown(b) ==
    LET prices == GetClosePrices(b)
    IN  IF Len(prices) = 0 THEN Zero ELSE DrawdownPass(prices).maxDrawdown

\* whether CalculateMaxDrawdown divides by a peak of 0 (line 129)
MaxDrawdownZeroDiv(b) ==
    Len(b) > 0 /\ DrawdownPass(GetClosePrices(b)).zeroDiv

CalculateSharpeRatio(returns, riskFreeRate, periodsPerYear) ==
    IF Len(returns) = 0 THEN Zero
    ELSE LET stats == Calculate(returns)
         IN  IF stats.StdDev = Zero THEN Zero
             ELSE RDiv(RSub(RMul(stats.Mean, F(periodsPerYear)), riskFreeRate),
                       RMul(stats.StdDev, Sqrt(F(periodsPerYear))))

\* a Sortino entry of 0 whenever none can be computed
SortinoEntryZeroDefault(returns, mean) ==
    LET downsideReturns == SelectSeq(returns, LAMBDA r : RLt(r, Zero))
        downsideDeviation == RMul(Calculate(downsideReturns).StdDev, Sqrt(F(365)))
    IN  IF Len(downsideReturns) > 0 /\ RLt(Zero, downsideDeviation)
        THEN {<<"sortino_ratio", RDiv(RMul(mean, F(365)), downsideDeviation)>>}
        ELSE {<<"sortino_ratio", Zero>>}

\* part_001:225-239: the Sortino entry of the map, if any
SortinoEntry(returns, mean) ==
    LET downsideReturns == SelectSeq(returns, LAMBDA r : RLt(r, Zero))
        downsideDeviation == RMul(Calculate(downsideReturns).StdDev, Sqrt(F(365)))
    IN  IF Len(downsideReturns) > 0 /\ RLt(Zero, downsideDeviation)
        THEN {<<"sortino_ratio", RDiv(RMul(mean, F(365)), downsideDeviation)>>}
        ELSE {}

\* part_001:211-223: the mean of the sorted returns up to index
\* int(0.05 * len), that index included
CVaREntry(returns) ==
    LET sortedReturns == SortFloats(returns)
        var5Index == (5 * Len(sortedReturns)) \div 100
    IN  IF var5Index < Len(sortedReturns)
        THEN {<<"cvar_95", RDiv(SumFrom(sortedReturns, 0, var5Index + 1), F(var5Index + 1))>>}
        ELSE {}

\* part_001:183-244: the map as the set of its <<key, value>> entries
GetRiskMetrics(b) ==
    IF Len(b) < 30 THEN {}
    ELSE LET returns == SubSeq(CalculateReturns(b).returns, 1, Len(b) - 1)
         IN  IF Len(returns) = 0 THEN {}
             ELSE LET volatility == CalculateVolatility(returns, 365)
                      returnStats == Calculate(returns)
                      var95 == RSub(returnStats.Mean, RMul(<<329, 200>>, returnStats.StdDev))
                  IN  {<<"volatility_annual", volatility>>,
                       <<"max_drawdown", CalculateMaxDrawdown(b)>>,
                       <<"sharpe_ratio", CalculateSharpeRatio(returns, Zero, 365)>>,
                       <<"var_95", var95>>,
                       <<"var_95_annual", RMul(var95, Sqrt(F(365)))>>,
                       <<"beta_estimate", RDiv(volatility, <<4, 25>>)>>}
                          \cup CVaREntry(returns)
                          \cup SortinoEntry(returns, returnStats.Mean)

\* a float64 that is not a finite number: +Inf, -Inf or NaN
NotFinite == <<0, 0>>

\* a / b in float64: a zero denominator gives +Inf, -Inf or NaN
Quotient(a, b) == IF a = NotFinite \/ b = Zero THEN NotFinite ELSE RDiv(a, b)

\* PerformBacktest: the result mapping as the set of its <<key, value>> entries
\* (annualized_return, a math.Pow, is left out), the series as the call leaves
\* it, and whether one of the quotients of lines 258, 261 and 264 had a zero
\* denominator.  Timestamps count days.
PerformBacktest(b, startAmount) ==
    IF Len(b) < 2 THEN [results |-> {}, data |-> b, zeroDiv |-> FALSE]
    ELSE LET d == Sort(b)
             startPrice == F(At(d, 0).close)
             endPrice == F(At(d, Len(d) - 1).close)
             btcAmount == Quotient(startAmount, startPrice)
             endValue == IF btcAmount = NotFinite THEN NotFinite
                         ELSE RMul(btcAmount, endPrice)
             totalReturn == IF endValue = NotFinite THEN NotFinite
                            ELSE Quotient(RSub(endValue, startAmount), startAmount)
             days == F(At(d, Len(d) - 1).ts - At(d, 0).ts)
         IN  [results |-> {<<"start_amount", startAmount>>, <<"end_value", endValue>>,
                           <<"total_return", totalReturn>>, <<"btc_purchased", btcAmount>>,
                           <<"days_held", days>>, <<"start_price", startPrice>>,
                           <<"end_price", endPrice>>},
              data |-> d,
              zeroDiv |-> startPrice = Zero \/ startAmount = Zero \/ days = Zero]

---------------------------------------------------------------------------
(* internal/patterns *)

EmptyLevels == [SupportLevels |-> <<>>, ResistanceLevels |-> <<>>]

\* every other bar of the window has a higher low
IsSupportStrict(d, i, lookbackPeriod) ==
    \A j \in (i - lookbackPeriod)..(i + lookbackPeriod) :
        j # i => At(d, j).low > At(d, i).low

\* lines 398-410: no other bar of the window around Go index i has a lower low
IsSupport(d, i, lookbackPeriod) ==
    \A j \in (i - lookbackPeriod)..(i + lookbackPeriod) :
        j # i => ~(At(d, j).low < At(d, i).low)

IsResistance(d, i, lookbackPeriod) ==
    \A j \in (i - lookbackPeriod)..(i + lookbackPeriod) :
        j # i => ~(At(d, j).high > At(d, i).high)

\* sum / float64(len(currentCluster))
ClusterMean(cluster) == RDiv(SumFrom(cluster, 0, Len(cluster)), F(Len(cluster)))

\* lines 442-454: one round of the grouping loop, at Go index st.i.  After a
\* level of 0 the quotient of line 442 is +Inf or NaN, which is not <= tolerance
ClusterStep(levels, tolerance, st) ==
    IF /\ At(levels, st.i - 1) # Zero
       /\ RLe(RDiv(RAbs(RSub(At(levels, st.i), At(levels, st.i - 1))),
                   At(levels, st.i - 1)),
              tolerance)
    THEN [i |-> st.i + 1, currentCluster |-> Append(st.currentCluster, At(levels, st.i)),
          clustered |-> st.clustered]
    ELSE [i |-> st.i + 1, currentCluster |-> <<At(levels, st.i)>>,
          clustered |-> Append(st.clustered, ClusterMean(st.currentCluster))]

RECURSIVE ClusterLoop(_, _, _)
\* lines 441-464: the loop, then the last cluster
ClusterLoop(levels, tolerance, st) ==
    IF st.i >= Len(levels) THEN Append(st.clustered, ClusterMean(st.currentCluster))
    ELSE ClusterLoop(levels, tolerance, ClusterStep(levels, tolerance, st))

clusterLevels(levels, tolerance) ==
    IF Len(levels) = 0 THEN levels
    ELSE LET sorted == SortFloats(levels)
         IN  ClusterLoop(sorted, tolerance,
                         [i |-> 1, currentCluster |-> <<At(sorted, 0)>>, clustered |-> <<>>])

\* whether clusterLevels divides by a level of 0 (line 442)
ClusterZeroDiv(levels) ==
    \E i \in 1..(Len(levels) - 1) : SortFloats(levels)[i] = Zero

\* returns the level sets and the series as the call leaves it (sorted in place)
FindSupportResistanceLevels(b, lookbackPeriod, tolerance) ==
    IF Len(b) < lookbackPeriod * 2 THEN [levels |-> EmptyLevels, data |-> b]
    ELSE LET d == Sort(b)
             idx == [k \in 1..(Len(d) - 2 * lookbackPeriod) |-> lookbackPeriod + k - 1]
             sup == SelectSeq(idx, LAMBDA i : IsSupport(d, i, lookbackPeriod))
             res == SelectSeq(idx, LAMBDA i : IsResistance(d, i, lookbackPeriod))
         IN  [levels |->
                 [SupportLevels |->
                      clusterLevels([k \in 1..Len(sup) |-> F(At(d, sup[k]).low)], tolerance),
                  ResistanceLevels |->
                      clusterLevels([k \in 1..Len(res) |-> F(At(d, res[k]).high)], tolerance)],
              data |-> d]

\* DetectTrend with >= 0.05 and <= -0.05 at lines 481 and 483
DetectTrendInclusive(b, period) ==
    IF Len(b) < period THEN "insufficient_data"
    ELSE LET prices == GetClosePrices(b)
             startPrice == At(prices, Len(prices) - period)
             endPrice == At(prices, Len(prices) - 1)
             change == RDiv(RSub(endPrice, startPrice), startPrice)
         IN  IF startPrice = Zero
             THEN (IF RLt(Zero, endPrice) THEN "uptrend" ELSE "sideways")
             ELSE IF RLe(<<5, 100>>, change) THEN "uptrend"
             ELSE IF RLe(change, <<-5, 100>>) THEN "downtrend"
             ELSE "sideways"

\* with a start price of 0 the quotient of line 479 is +Inf or NaN (closes are
\* not negative): +Inf is above 0.05, NaN is neither above nor below
DetectTrend(b, period) ==
    IF Len(b) < period THEN "insufficient_data"
    ELSE LET prices == GetClosePrices(b)
             startPrice == At(prices, Len(prices) - period)
             endPrice == At(prices, Len(prices) - 1)
             change == RDiv(RSub(endPrice, startPrice), startPrice)
         IN  IF startPrice = Zero
             THEN (IF RLt(Zero, endPrice) THEN "uptrend" ELSE "sideways")
             ELSE IF RLt(<<5, 100>>, change) THEN "uptrend"
             ELSE IF RLt(change, <<-5, 100>>) THEN "downtrend"
             ELSE "sideways"

\* whether DetectTrend divides by a start price of 0 (line 479)
DetectTrendZeroDiv(b, period) ==
    Len(b) >= period /\ At(GetClosePrices(b), Len(b) - period) = Zero

\* FindPivotPoints: the mapping as the set of its <<key, value>> entries
\* the seven levels derived from one bar (lines 660-673)
PivotsOf(latest) ==
    LET high == F(latest.high)
        low == F(latest.low)
        close == F(latest.close)
        pivot == RDiv(RAdd(RAdd(high, low), close), F(3))
    IN  {<<"pivot", pivot>>,
         <<"r1", RSub(RMul(F(2), pivot), low)>>,
         <<"s1", RSub(RMul(F(2), pivot), high)>>,
         <<"r2", RAdd(pivot, RSub(high, low))>>,
         <<"s2", RSub(pivot, RSub(high, low))>>,
         <<"r3", RAdd(high, RMul(F(2), RSub(pivot, low)))>>,
         <<"s3", RSub(low, RMul(F(2), RSub(high, pivot)))>>}

\* the pivots taken from the first stored bar
FindPivotPointsFirstBar(b) == IF Len(b) = 0 THEN {} ELSE PivotsOf(At(b, 0))

FindPivotPoints(b) == IF Len(b) = 0 THEN {} ELSE PivotsOf(At(b, Len(b) - 1))

---------------------------------------------------------------------------
(* internal/analyzer *)

\* the length thresholds and the periods of PerformComprehensiveAnalysis
MinPointsStats == 2
MinPointsRSI == 14
MinPointsMACD == 26
MinPointsBollingerOffByOne == 20 + 1
MinPointsBollinger == 20
MinPointsLevels == 10
RSIPeriod == 14
MACDFast == 12
MACDSlow == 26
MACDSignal == 9
BollingerPeriod == 20
LevelsLookback == 5
TrendPeriod == 30

\* types.BTCAnalytics{}
ZeroAnalytics ==
    [PriceStats |-> ZeroStatistics, VolumeStats |-> ZeroStatistics,
     Volatility |-> Zero, SharpeRatio |-> Zero, MaxDrawdown |-> Zero,
     Returns |-> <<>>, LogReturns |-> <<>>, RSI |-> <<>>, MACD |-> EmptyMACD,
     BollingerBands |-> EmptyBands, SupportResistance |-> EmptyLevels]

\* returns the aggregate and the series as the call leaves it
PerformComprehensiveAnalysis(b) ==
    IF Len(b) < MinPointsStats THEN [analytics |-> ZeroAnalytics, data |-> b]
    ELSE LET r == CalculateReturns(b)
             some == Len(r.returns) > 0
             sr == IF Len(b) >= MinPointsLevels
                   THEN FindSupportResistanceLevels(b, LevelsLookback, <<2, 100>>)
                   ELSE [levels |-> EmptyLevels, data |-> b]
         IN  [analytics |->
                 [PriceStats  |-> Calculate(GetClosePrices(b)),
                  VolumeStats |-> Calculate(GetVolumeData(b)),
                  Volatility  |-> IF some THEN CalculateVolatility(r.returns, 365) ELSE Zero,
                  SharpeRatio |-> IF some THEN CalculateSharpeRatio(r.returns, Zero, 365)
                                  ELSE Zero,
                  MaxDrawdown |-> IF some THEN CalculateMaxDrawdown(b) ELSE Zero,
                  Returns     |-> r.returns,
                  LogReturns  |-> r.logReturns,
                  RSI  |-> IF Len(b) >= MinPointsRSI THEN CalculateRSI(b, RSIPeriod) ELSE <<>>,
                  MACD |-> IF Len(b) >= MinPointsMACD
                           THEN CalculateMACD(b, MACDFast, MACDSlow, MACDSignal)
                           ELSE EmptyMACD,
                  BollingerBands |-> IF Len(b) >= MinPointsBollinger
                                     THEN CalculateBollingerBands(b, BollingerPeriod, F(2))
                                     ELSE EmptyBands,
                  SupportResistance |-> sr.levels],
              data |-> sr.data]

\* math.Min and math.Max on prices
MathMin(x, y) == IF x < y THEN x ELSE y

MathMax(x, y) == IF x > y THEN x ELSE y

\* the quantities the candlestick helpers derive from one bar
Body(candle) == Abs(candle.close - candle.open)

Range(candle) == candle.high - candle.low

LowerShadow(candle) == MathMin(candle.open, candle.close) - candle.low

UpperShadow(candle) == candle.high - MathMax(candle.open, candle.close)

isDoji(candle) ==
    /\ Range(candle) > 0
    /\ RLt(RDiv(F(Body(candle)), F(Range(candle))), <<1, 10>>)

isHammer(candle) ==
    /\ Range(candle) > 0
    /\ LowerShadow(candle) > 2 * Body(candle)
    /\ RLt(F(UpperShadow(candle)), RMul(F(Body(candle)), <<1, 2>>))

isShootingStar(candle) ==
    /\ Range(candle) > 0
    /\ UpperShadow(candle) > 2 * Body(candle)
    /\ RLt(F(LowerShadow(candle)), RMul(F(Body(candle)), <<1, 2>>))

isBullishEngulfing(prev, curr) ==
    /\ prev.close < prev.open
    /\ curr.close > curr.open
    /\ curr.open < prev.close
    /\ curr.close > prev.open

isBearishEngulfing(prev, curr) ==
    /\ prev.close > prev.open
    /\ curr.close < curr.open
    /\ curr.open > prev.close
    /\ curr.close < prev.open

\* the second body is under 0.3 of the first
SecondSmall(first, second) == RLt(F(Body(second)), RMul(F(Body(first)), <<3, 10>>))

isMorningStar(first, second, third) ==
    /\ first.close < first.open
    /\ SecondSmall(first, second)
    /\ third.close > third.open
    /\ second.high < first.low
    /\ RLt(RDiv(F(first.open + first.close), F(2)), F(third.close))

isEveningStar(first, second, third) ==
    /\ first.close > first.open
    /\ SecondSmall(first, second)
    /\ third.close < third.open
    /\ second.low > first.high
    /\ RLt(F(third.close), RDiv(F(first.open + first.close), F(2)))

\* a key of the pattern map: present once an index has been appended to it
PatternEntry(name, indices) == IF indices = <<>> THEN {} ELSE {<<name, indices>>}

\* returns the map, as the set of its <<name, indices>> entries, and the
\* series as the call leaves it
DetectCandlestickPatterns(b) ==
    IF Len(b) < 3 THEN [patterns |-> {}, data |-> b]
    ELSE LET d == Sort(b)
             idx == SubSeq([k \in 1..(Len(d) - 2) |-> k], 1, Len(d) - 2)
             idx3 == SelectSeq(idx, LAMBDA i : i > 1)
         IN  [patterns |->
                 PatternEntry("doji", SelectSeq(idx, LAMBDA i : isDoji(At(d, i))))
                 \cup PatternEntry("hammer", SelectSeq(idx, LAMBDA i : isHammer(At(d, i))))
                 \cup PatternEntry("shooting_star",
                        SelectSeq(idx, LAMBDA i : isShootingStar(At(d, i))))
                 \cup PatternEntry("bullish_engulfing",
                        SelectSeq(idx, LAMBDA i : isBullishEngulfing(At(d, i - 1), At(d, i))))
                 \cup PatternEntry("bearish_engulfing",
                        SelectSeq(idx, LAMBDA i : isBearishEngulfing(At(d, i - 1), At(d, i))))
                 \cup PatternEntry("morning_star",
                        SelectSeq(idx3, LAMBDA i :
                            isMorningStar(At(d, i - 2), At(d, i - 1), At(d, i))))
                 \cup PatternEntry("evening_star",
                        SelectSeq(idx3, LAMBDA i :
                            isEveningStar(At(d, i - 2), At(d, i - 1), At(d, i)))),
              data |-> d]

\* a price fall is not asked for: every volume spike counts as a selloff
IsVolumeSelloffAnySpike(prev, curr, avgVolume) ==
    RLt(RMul(avgVolume, F(2)), F(curr.volume))

\* part_002:632-644: the three tests on a bar and its predecessor
IsVolumeBreakout(prev, curr, avgVolume) ==
    /\ RLt(RMul(avgVolume, F(2)), F(curr.volume))
    /\ RLt(RMul(F(prev.close), <<51, 50>>), F(curr.close))

IsVolumeSelloff(prev, curr, avgVolume) ==
    /\ RLt(RMul(avgVolume, F(2)), F(curr.volume))
    /\ RLt(F(curr.close), RMul(F(prev.close), <<49, 50>>))

IsLowVolume(curr, avgVolume) == RLt(F(curr.volume), RMul(avgVolume, <<1, 2>>))

\* part_002:611-648: the map as the set of its <<name, indices>> entries; the
\* series is read in stored order
DetectVolumePatterns(b) ==
    IF Len(b) < 20 THEN {}
    ELSE LET volumes == SubSeq(GetVolumeData(b), 1, Len(b))
             avgVolume == RDiv(SumFrom(volumes, 0, Len(volumes)), F(Len(volumes)))
             idx == SubSeq([k \in 1..(Len(b) - 1) |-> k], 1, Len(b) - 1)
         IN  PatternEntry("volume_breakout",
                 SelectSeq(idx, LAMBDA i : IsVolumeBreakout(At(b, i - 1), At(b, i), avgVolume)))
             \cup PatternEntry("volume_selloff",
                 SelectSeq(idx, LAMBDA i : IsVolumeSelloff(At(b, i - 1), At(b, i), avgVolume)))
             \cup PatternEntry("low_volume",
                 SelectSeq(idx, LAMBDA i : IsLowVolume(At(b, i), avgVolume)))

\* types.BTCPrice{} and time.Time{}
ZeroPrice == [ts |-> 0, open |-> 0, high |-> 0, low |-> 0, close |-> 0, volume |-> 0]

ZeroTime == 0

\* timeseries.GetLatestPrice: the returned bar and the series as the call
\* leaves it
GetLatestPrice(b) ==
    IF Len(b) = 0 THEN [price |-> ZeroPrice, data |-> b]
    ELSE [price |-> Sort(b)[Len(b)], data |-> Sort(b)]

\* timeseries.GetTimeRange: the returned pair and the series as the call
\* leaves it
GetTimeRange(b) ==
    IF Len(b) = 0 THEN [range |-> <<ZeroTime, ZeroTime>>, data |-> b]
    ELSE [range |-> <<Sort(b)[1].ts, Sort(b)[Len(b)].ts>>, data |-> Sort(b)]

\* no library call has returned yet.  A returned float64 is held in num, a
\* returned []float64 in seq, a returned map[string]float64 in map as the set
\* of its <<key, value>> entries, a returned string in label, a returned
\* Statistics in stats, a returned BTCPrice in price, a returned pair of times
\* in range; zeroDiv tells whether the call evaluated a quotient whose
\* denominator was 0
NoRet == [num |-> <<0, 1>>, seq |-> <<>>, map |-> {}, label |-> "", zeroDiv |-> FALSE,
          stats |-> ZeroStatistics, price |-> ZeroPrice, range |-> <<ZeroTime, ZeroTime>>,
          bands |-> EmptyBands]

\* timeseries.GetLatestPrice sorts the series in place and reads its last bar
LatestClose(b) == F(Sort(b)[Len(b)].close)

\* a level within 2% of the latest price (lines 325-338)
NearLevel(latestPrice, levels) ==
    \E i \in 1..Len(levels) :
        RLt(RDiv(RAbs(RSub(latestPrice, levels[i])), levels[i]), <<2, 100>>)

\* the RSI label with the two thresholds themselves counted as signals
RSILabelInclusive(latestRSI) ==
    IF RLe(F(70), latestRSI) THEN "SELL - Overbought"
    ELSE IF RLe(latestRSI, F(30)) THEN "BUY - Oversold"
    ELSE "HOLD - Neutral"

\* the label of the "RSI" entry (lines 265-271)
RSILabel(latestRSI) ==
    IF RLt(F(70), latestRSI) THEN "SELL - Overbought"
    ELSE IF RLt(latestRSI, F(30)) THEN "BUY - Oversold"
    ELSE "HOLD - Neutral"

\* returns the mapping, as the set of its <<name, label>> entries, and the
\* series as the call leaves it
GetTradingSignals(b, a) ==
    LET rsi == IF Len(a.RSI) > 0
               THEN LET latestRSI == At(a.RSI, Len(a.RSI) - 1)
                    IN  {<<"RSI", RSILabel(latestRSI)>>}
               ELSE {}
        mac == IF Len(a.MACD.MACD) > 1 /\ Len(a.MACD.Signal) > 1
               THEN LET latestMACD == At(a.MACD.MACD, Len(a.MACD.MACD) - 1)
                        prevMACD == At(a.MACD.MACD, Len(a.MACD.MACD) - 2)
                        latestSignal == At(a.MACD.Signal, Len(a.MACD.Signal) - 1)
                        prevSignal == At(a.MACD.Signal, Len(a.MACD.Signal) - 2)
                    IN  {<<"MACD",
                           IF RLe(prevMACD, prevSignal) /\ RLt(latestSignal, latestMACD)
                           THEN "BUY - Bullish crossover"
                           ELSE IF RLe(prevSignal, prevMACD) /\ RLt(latestMACD, latestSignal)
                           THEN "SELL - Bearish crossover"
                           ELSE IF RLt(latestSignal, latestMACD) THEN "HOLD - Bullish"
                           ELSE "HOLD - Bearish">>}
               ELSE {}
        bands == Len(a.BollingerBands.Upper) > 0
        b1 == IF bands THEN Sort(b) ELSE b
        bol == IF bands
               THEN LET latestPrice == LatestClose(b)
                        latest == Len(a.BollingerBands.Upper) - 1
                        upper == At(a.BollingerBands.Upper, latest)
                        lower == At(a.BollingerBands.Lower, latest)
                    IN  {<<"Bollinger",
                           IF RLt(upper, latestPrice) THEN "SELL - Price above upper band"
                           ELSE IF RLt(latestPrice, lower) THEN "BUY - Price below lower band"
                           ELSE "HOLD - Price in normal range">>}
               ELSE {}
        trend == DetectTrend(b1, TrendPeriod)
        trd == {<<"Trend", IF trend = "uptrend" THEN "BUY - Uptrend detected"
                           ELSE IF trend = "downtrend" THEN "SELL - Downtrend detected"
                           ELSE "HOLD - Sideways movement">>}
        levels == Len(a.SupportResistance.SupportLevels) > 0
                      \/ Len(a.SupportResistance.ResistanceLevels) > 0
        sup == IF levels /\ NearLevel(LatestClose(b1), a.SupportResistance.SupportLevels)
               THEN {<<"Support", "BUY - Near support level">>} ELSE {}
        res == IF levels /\ NearLevel(LatestClose(b1), a.SupportResistance.ResistanceLevels)
               THEN {<<"Resistance", "SELL - Near resistance level">>} ELSE {}
    IN  [signals |-> rsi \cup mac \cup bol \cup trd \cup sup \cup res,
         data |-> IF levels THEN Sort(b1) ELSE b1]

\* whether Go's s[i] is inside the slice
InRange(s, i) == i >= 0 /\ i < Len(s)

\* GenerateReport, lines 63-192: the labels it derives, in the order it writes
\* them (the numbers it prints are left out), whether an index it reads lies
\* outside its slice (a runtime panic, after which nothing is returned), and the
\* series as the call leaves it.  The sections written after the trend (lines
\* 194-255) read the sorted series, index nothing of the aggregate and add no
\* label modelled here.
GenerateReport(b, a) ==
    LET b1 == IF Len(b) > 0 THEN Sort(b) ELSE b
        risk == IF RLt(Zero, a.Volatility) THEN <<"RISK METRICS">> ELSE <<>>
        rsi == IF Len(a.RSI) > 0
               THEN LET latestRSI == At(a.RSI, Len(a.RSI) - 1)
                    IN  <<IF RLt(F(70), latestRSI) THEN "RSI (Overbought)"
                          ELSE IF RLt(latestRSI, F(30)) THEN "RSI (Oversold)"
                          ELSE "RSI (Neutral)">>
               ELSE <<>>
        macdOn == Len(a.MACD.MACD) > 0
        macdPanic == macdOn /\ ~InRange(a.MACD.Signal, Len(a.MACD.Signal) - 1)
        mac == IF macdOn /\ ~macdPanic
               THEN <<IF RLt(At(a.MACD.Signal, Len(a.MACD.Signal) - 1),
                             At(a.MACD.MACD, Len(a.MACD.MACD) - 1))
                      THEN "MACD (Bullish)" ELSE "MACD (Bearish)">>
               ELSE <<>>
        bandsOn == Len(a.BollingerBands.Middle) > 0
        latest == Len(a.BollingerBands.Middle) - 1
        bandsPanic == bandsOn /\ (~InRange(a.BollingerBands.Upper, latest)
                                    \/ ~InRange(a.BollingerBands.Lower, latest))
        bol == IF bandsOn /\ ~bandsPanic
               THEN LET latestPrice == LatestClose(b1)
                    IN  <<IF RLt(At(a.BollingerBands.Upper, latest), latestPrice)
                          THEN "Price is above upper band"
                          ELSE IF RLt(latestPrice, At(a.BollingerBands.Lower, latest))
                          THEN "Price is below lower band"
                          ELSE "Price is within normal range">>
               ELSE <<>>
        sup == IF Len(a.SupportResistance.SupportLevels) > 0
               THEN <<"Support Levels">> ELSE <<>>
        res == IF Len(a.SupportResistance.ResistanceLevels) > 0
               THEN <<"Resistance Levels">> ELSE <<>>
        trend == <<DetectTrend(b1, TrendPeriod)>>
    IN  [panic |-> macdPanic \/ bandsPanic,
         lines |-> <<"PRICE STATISTICS">> \o risk \o <<"VOLUME STATISTICS">> \o rsi \o mac
                       \o bol \o sup \o res \o trend,
         data |-> b1]

---------------------------------------------------------------------------
(* The engine on a loaded series: PerformComprehensiveAnalysis (up to       *)
(* MaxRuns times), then GetTradingSignals and GenerateReport on the latest  *)
(* aggregate, in any order.  The series have 0..MaxPoints bars with         *)
(* distinct timestamps, stored in ascending order or with the last two bars *)
(* stored the other way round; the market is flat at BaseClose up to the    *)
(* last stored bar, which closes at, below or above it.                     *)

MaxPoints == 35
MaxRuns == 2

BaseClose == 3

LastCloses == {BaseClose - 1, BaseClose, BaseClose + 1}

\* a bar that opens and closes at c at time t
Bar(t, c) == [ts |-> t, open |-> c, high |-> c + 1, low |-> c - 1, close |-> c,
             volume |-> 10 * c]

AscendingSeries(n, last) ==
    [i \in 1..n |-> Bar(i, IF i = n THEN last ELSE BaseClose)]

\* the same bars with the latest one stored before the one that precedes it
SwappedSeries(n, last) ==
    [i \in 1..n |-> IF i = n THEN Bar(n - 1, BaseClose)
                    ELSE IF i = n - 1 THEN Bar(n, last)
                    ELSE Bar(i, BaseClose)]

LoadedSeries ==
    {AscendingSeries(n, last) : n \in 0..MaxPoints, last \in LastCloses}
        \cup {SwappedSeries(n, last) : n \in 2..MaxPoints, last \in LastCloses}

Init ==
    /\ bts \in LoadedSeries
    /\ loaded = bts
    /\ runs = <<>>
    /\ signals = {}
    /\ report = <<>>
    /\ panicked = FALSE
    /\ call = NoCall
    /\ out = <<>>
    /\ macd = EmptyMACD
    /\ ret = NoRet
    /\ pc = "idle"
    /\ issues = <<>>

Analyze ==
    /\ ~panicked
    /\ Len(runs) < MaxRuns
    /\ LET r == PerformComprehensiveAnalysis(bts)
       IN  /\ runs' = Append(runs, r.analytics)
           /\ bts' = r.data
    /\ UNCHANGED <<loaded, signals, report, panicked, call, out, macd, ret, pc, issues>>

Signals ==
    /\ ~panicked
    /\ runs # <<>>
    /\ LET r == GetTradingSignals(bts, runs[Len(runs)])
       IN  /\ signals' = r.signals
           /\ bts' = r.data
    /\ UNCHANGED <<loaded, runs, report, panicked, call, out, macd, ret, pc, issues>>

Report ==
    /\ ~panicked
    /\ runs # <<>>
    /\ LET r == GenerateReport(bts, runs[Len(runs)])
       IN  /\ report' = IF r.panic THEN report ELSE r.lines
           /\ panicked' = r.panic
           /\ bts' = r.data
    /\ UNCHANGED <<loaded, runs, signals, call, out, macd, ret, pc, issues>>

Next == Analyze \/ Signals \/ Report

Spec == Init /\ [][Next]_vars

---------------------------------------------------------------------------
(* The indicator library called on its own: a series of bars, then one call *)
(* of CalculateRSI, calculateEMA or CalculateMACD with a small period (the  *)
(* functions read the series and keep no state, so one call per series      *)
(* shows all they do).                                                       *)

MaxLen == 5
MaxPeriod == 3
CloseVals == {1, 2, 3}

SeriesOf(closes) == [i \in 1..Len(closes) |-> Bar(i, closes[i])]

ShortSeries == UNION {[1..n -> CloseVals] : n \in 0..MaxLen}

\* flat markets of 14 to 16 bars
FlatSeries == {[i \in 1..n |-> c] : n \in 14..16, c \in CloseVals}

IndInit ==
    /\ \E closes \in ShortSeries \cup FlatSeries : bts = SeriesOf(closes)
    /\ loaded = bts
    /\ runs = <<>>
    /\ signals = {}
    /\ report = <<>>
    /\ panicked = FALSE
    /\ call = NoCall
    /\ out = <<>>
    /\ macd = EmptyMACD
    /\ ret = NoRet
    /\ pc = "idle"
    /\ issues = <<>>

CallRSI ==
    /\ call = NoCall
    /\ \E period \in (1..MaxPeriod) \cup {RSIPeriod} :
          /\ call' = [op |-> "RSI", args |-> <<period>>]
          /\ out' = CalculateRSI(bts, period)
    /\ macd' = EmptyMACD
    /\ UNCHANGED <<bts, loaded, runs, signals, report, panicked, ret, pc, issues>>

CallEMA ==
    /\ call = NoCall
    /\ \E period \in 1..MaxPeriod :
          /\ call' = [op |-> "EMA", args |-> <<period>>]
          /\ out' = calculateEMA(GetClosePrices(bts), period)
    /\ macd' = EmptyMACD
    /\ UNCHANGED <<bts, loaded, runs, signals, report, panicked, ret, pc, issues>>

CallMACD ==
    /\ call = NoCall
    /\ \E slowPeriod \in 1..MaxPeriod, signalPeriod \in 1..MaxPeriod :
          \E fastPeriod \in 1..slowPeriod :
              /\ call' = [op |-> "MACD", args |-> <<fastPeriod, slowPeriod, signalPeriod>>]
              /\ macd' = CalculateMACD(bts, fastPeriod, slowPeriod, signalPeriod)
    /\ out' = <<>>
    /\ UNCHANGED <<bts, loaded, runs, signals, report, panicked, ret, pc, issues>>

\* GetTradingSignals on an aggregate whose RSI is the result of CalculateRSI
CallRSISignals ==
    /\ call = NoCall
    /\ \E period \in (1..MaxPeriod) \cup {RSIPeriod} :
          LET rsi == CalculateRSI(bts, period)
              a == [ZeroAnalytics EXCEPT !.RSI = rsi]
              r == GetTradingSignals(bts, a)
          IN  /\ call' = [op |-> "RSISignals", args |-> <<period>>]
              /\ out' = rsi
              /\ runs' = <<a>>
              /\ signals' = r.signals
              /\ bts' = r.data
    /\ macd' = EmptyMACD
    /\ UNCHANGED <<loaded, report, panicked, ret, pc, issues>>

\* CalculateBollingerBands, and CalculateMovingAverage with the same period
CallBollingerBands ==
    /\ call = NoCall
    /\ \E period \in 1..MaxPeriod, stdDevFactor \in {Zero, <<1, 2>>, F(2)} :
          LET r == CalculateBollingerBands(bts, period, stdDevFactor)
              n == Len(r.Middle)
          IN  /\ call' = [op |-> "CalculateBollingerBands", args |-> <<period, stdDevFactor>>]
              /\ ret' = [NoRet EXCEPT !.bands = [Upper  |-> SubSeq(r.Upper, 1, n),
                                                 Middle |-> SubSeq(r.Middle, 1, n),
                                                 Lower  |-> SubSeq(r.Lower, 1, n)],
                                      !.seq = CalculateMovingAverage(bts, period)]
    /\ UNCHANGED <<bts, loaded, runs, signals, report, panicked, out, macd, pc, issues>>

IndNext == CallRSI \/ CallEMA \/ CallMACD \/ CallRSISignals \/ CallBollingerBands

SpecInd == IndInit /\ [][IndNext]_vars

---------------------------------------------------------------------------
(* The statistics, risk and pattern functions called on their own: a short  *)
(* series, or one of the worked examples, then one call.  Closes are not    *)
(* negative and may be 0; timestamps count days and may repeat.             *)

MaxBars == 3
LibTimestamps == {1, 2}
LibCloses == {0, 100, 105, 106}
LibPeriods == 1..MaxPeriod
Tolerances == {Zero, <<1, 100>>, <<1, 20>>, <<3, 50>>}
StartAmounts == {0, 10000}
LatestRSIs == {0, 29, 30, 31, 70, 71, 100}

\* a bar with every price given
Candle(t, o, h, l, c) == [ts |-> t, open |-> o, high |-> h, low |-> l, close |-> c,
                          volume |-> 10]

LibBars == {Bar(t, c) : t \in LibTimestamps, c \in LibCloses}

\* the worked examples: a rise or fall from 100 over two bars, the five closes
\* of the returns example, and the pivot bar H=110, L=90, C=100
ExampleSeries ==
    {<<Bar(1, 100), Bar(2, c)>> : c \in {94, 95, 96, 102, 150}}
        \cup {SeriesOf(<<100, 102, 101, 105, 103>>)}
        \cup {<<Candle(1, 100, 110, 90, 100)>>}
        \cup {<<Bar(2, 150), Bar(1, 100)>>}

LibSeries == UNION {[1..n -> LibBars] : n \in 0..MaxBars} \cup ExampleSeries

LibInit ==
    /\ bts \in LibSeries
    /\ loaded = bts
    /\ runs = <<>>
    /\ signals = {}
    /\ report = <<>>
    /\ panicked = FALSE
    /\ call = NoCall
    /\ out = <<>>
    /\ macd = EmptyMACD
    /\ ret = NoRet
    /\ pc = "idle"
    /\ issues = <<>>

\* clusterLevels on the closes of the series as the list of levels
CallClusterLevels ==
    /\ call = NoCall
    /\ \E tolerance \in Tolerances :
          /\ call' = [op |-> "clusterLevels", args |-> tolerance]
          /\ out' = clusterLevels(GetClosePrices(bts), tolerance)
          /\ ret' = [NoRet EXCEPT !.zeroDiv = ClusterZeroDiv(GetClosePrices(bts))]
    /\ UNCHANGED <<bts, loaded, runs, signals, report, panicked, macd, pc, issues>>

CallMaxDrawdown ==
    /\ call = NoCall
    /\ call' = [op |-> "CalculateMaxDrawdown", args |-> <<>>]
    /\ ret' = [NoRet EXCEPT !.num = CalculateMaxDrawdown(bts),
                            !.zeroDiv = MaxDrawdownZeroDiv(bts)]
    /\ UNCHANGED <<bts, loaded, runs, signals, report, panicked, out, macd, pc, issues>>

CallBacktest ==
    /\ call = NoCall
    /\ \E startAmount \in StartAmounts :
          LET r == PerformBacktest(bts, F(startAmount))
          IN  /\ call' = [op |-> "PerformBacktest", args |-> <<startAmount>>]
              /\ ret' = [NoRet EXCEPT !.map = r.results, !.zeroDiv = r.zeroDiv]
              /\ bts' = r.data
    /\ UNCHANGED <<loaded, runs, signals, report, panicked, out, macd, pc, issues>>

CallDetectTrend ==
    /\ call = NoCall
    /\ \E period \in LibPeriods :
          /\ call' = [op |-> "DetectTrend", args |-> <<period>>]
          /\ ret' = [NoRet EXCEPT !.label = DetectTrend(bts, period),
                                  !.zeroDiv = DetectTrendZeroDiv(bts, period)]
    /\ UNCHANGED <<bts, loaded, runs, signals, report, panicked, out, macd, pc, issues>>

\* the simple returns are held in out, the log returns in ret.seq
CallReturns ==
    /\ call = NoCall
    /\ call' = [op |-> "CalculateReturns", args |-> <<>>]
    /\ out' = CalculateReturns(bts).returns
    /\ ret' = [NoRet EXCEPT !.seq = CalculateReturns(bts).logReturns]
    /\ UNCHANGED <<bts, loaded, runs, signals, report, panicked, macd, pc, issues>>

CallPivotPoints ==
    /\ call = NoCall
    /\ call' = [op |-> "FindPivotPoints", args |-> <<>>]
    /\ ret' = [NoRet EXCEPT !.map = FindPivotPoints(bts)]
    /\ UNCHANGED <<bts, loaded, runs, signals, report, panicked, out, macd, pc, issues>>

\* GetTradingSignals on an aggregate that holds nothing but an RSI sequence
\* (empty, or ending in latestRSI)
CallTradingSignals ==
    /\ call = NoCall
    /\ \E rsi \in {<<>>} \cup {<<F(50), F(latestRSI)>> : latestRSI \in LatestRSIs} :
          LET a == [ZeroAnalytics EXCEPT !.RSI = rsi]
              r == GetTradingSignals(bts, a)
          IN  /\ call' = [op |-> "GetTradingSignals", args |-> <<>>]
              /\ runs' = <<a>>
              /\ signals' = r.signals
              /\ bts' = r.data
    /\ UNCHANGED <<loaded, report, panicked, out, macd, ret, pc, issues>>

\* Calculate on the closes of the series
CallCalculate ==
    /\ call = NoCall
    /\ call' = [op |-> "Calculate", args |-> <<>>]
    /\ ret' = [NoRet EXCEPT !.stats = Calculate(GetClosePrices(bts))]
    /\ UNCHANGED <<bts, loaded, runs, signals, report, panicked, out, macd, pc, issues>>

LibNext ==
    \/ CallCalculate
    \/ CallClusterLevels
    \/ CallMaxDrawdown
    \/ CallBacktest
    \/ CallDetectTrend
    \/ CallReturns
    \/ CallPivotPoints
    \/ CallTradingSignals

SpecLib == LibInit /\ [][LibNext]_vars

---------------------------------------------------------------------------
(* The engine calls in any order and any number of times on one series     *)
(* (the analysis up to MaxRuns times).  The series have 0 to 12 bars whose *)
(* timestamps are all different, shared by two bars of different volumes,  *)
(* or shared by two identical bars, and are stored in ascending order, in  *)
(* descending order, or with the latest bar first.                         *)

FrameLens == {0, 1, 2, 3, 10, 11, 12}

FrameShapes == {"distinct", "shared", "repeated"}

\* the i-th bar in time: the market is flat at BaseClose and the bars differ
\* by their volume
FrameBar(shape, i) ==
    IF shape = "distinct" THEN [Bar(i, BaseClose) EXCEPT !.volume = i]
    ELSE IF shape = "shared" THEN [Bar((i + 1) \div 2, BaseClose) EXCEPT !.volume = i]
    ELSE [Bar((i + 1) \div 2, BaseClose) EXCEPT !.volume = (i + 1) \div 2]

AscendingFrame(shape, n) == SubSeq([i \in 1..n |-> FrameBar(shape, i)], 1, n)

Reversed(s) == SubSeq([i \in 1..Len(s) |-> s[Len(s) + 1 - i]], 1, Len(s))

LatestFirst(s) == IF s = <<>> THEN s ELSE <<s[Len(s)]>> \o SubSeq(s, 1, Len(s) - 1)

FrameSeries ==
    UNION {{AscendingFrame(shape, n), Reversed(AscendingFrame(shape, n)),
            LatestFirst(AscendingFrame(shape, n))} : shape \in FrameShapes, n \in FrameLens}

FrameInit ==
    /\ bts \in FrameSeries
    /\ loaded = bts
    /\ runs = <<>>
    /\ signals = {}
    /\ report = <<>>
    /\ panicked = FALSE
    /\ call = NoCall
    /\ out = <<>>
    /\ macd = EmptyMACD
    /\ ret = NoRet
    /\ pc = "idle"
    /\ issues = <<>>

Backtest ==
    /\ ~panicked
    /\ \E startAmount \in StartAmounts :
          LET r == PerformBacktest(bts, F(startAmount))
          IN  /\ call' = [op |-> "PerformBacktest", args |-> <<startAmount>>]
              /\ ret' = [NoRet EXCEPT !.map = r.results, !.zeroDiv = r.zeroDiv]
              /\ bts' = r.data
    /\ UNCHANGED <<loaded, runs, signals, report, panicked, out, macd, pc, issues>>

LatestPrice ==
    /\ ~panicked
    /\ LET r == GetLatestPrice(bts)
       IN  /\ call' = [op |-> "GetLatestPrice", args |-> <<>>]
           /\ ret' = [NoRet EXCEPT !.price = r.price]
           /\ bts' = r.data
    /\ UNCHANGED <<loaded, runs, signals, report, panicked, out, macd, pc, issues>>

TimeRange ==
    /\ ~panicked
    /\ LET r == GetTimeRange(bts)
       IN  /\ call' = [op |-> "GetTimeRange", args |-> <<>>]
           /\ ret' = [NoRet EXCEPT !.range = r.range]
           /\ bts' = r.data
    /\ UNCHANGED <<loaded, runs, signals, report, panicked, out, macd, pc, issues>>

Levels ==
    /\ ~panicked
    /\ LET r == FindSupportResistanceLevels(bts, LevelsLookback, <<2, 100>>)
       IN  /\ call' = [op |-> "FindSupportResistanceLevels", args |-> <<LevelsLookback>>]
           /\ out' = r.levels.SupportLevels
           /\ ret' = [NoRet EXCEPT !.seq = r.levels.ResistanceLevels]
           /\ bts' = r.data
    /\ UNCHANGED <<loaded, runs, signals, report, panicked, macd, pc, issues>>

Candlesticks ==
    /\ ~panicked
    /\ LET r == DetectCandlestickPatterns(bts)
       IN  /\ call' = [op |-> "DetectCandlestickPatterns", args |-> <<>>]
           /\ ret' = [NoRet EXCEPT !.map = r.patterns]
           /\ bts' = r.data
    /\ UNCHANGED <<loaded, runs, signals, report, panicked, out, macd, pc, issues>>

\* Calculate on the closes of the series
Stats ==
    /\ ~panicked
    /\ call' = [op |-> "Calculate", args |-> <<>>]
    /\ ret' = [NoRet EXCEPT !.stats = Calculate(GetClosePrices(bts))]
    /\ UNCHANGED <<bts, loaded, runs, signals, report, panicked, out, macd, pc, issues>>

FrameNext ==
    \/ Analyze
    \/ Signals
    \/ Report
    \/ Backtest
    \/ LatestPrice
    \/ TimeRange
    \/ Levels
    \/ Candlesticks
    \/ Stats

SpecFrame == FrameInit /\ [][FrameNext]_vars

---------------------------------------------------------------------------
(* internal/dataloader: ValidateData *)

\* time.Now(), in the unit of the timestamps
Now == 2

\* one message of the returned list, as <<text, index>>
Issue(cond, text, i) == IF cond THEN <<<<text, i>>>> ELSE <<>>

\* the messages of the first loop for the bar at index i (lines 345-369)
BarIssues(data, i) ==
    LET d == At(data, i)
    IN  Issue(d.open <= 0 \/ d.high <= 0 \/ d.low <= 0 \/ d.close <= 0,
              "Invalid price data", i)
        \o Issue(d.high < d.low, "High < Low", i)
        \o Issue(d.high < d.open \/ d.high < d.close, "High is not highest", i)
        \o Issue(d.low > d.open \/ d.low > d.close, "Low is not lowest", i)
        \o Issue(d.volume < 0, "Negative volume", i)
        \o Issue(d.ts > Now, "Future date", i)

RECURSIVE IssuesFrom(_, _)
IssuesFrom(data, i) ==
    IF i >= Len(data) THEN <<>> ELSE BarIssues(data, i) \o IssuesFrom(data, i + 1)

\* the messages of the second loop (lines 372-379): a timestamp seen before
RECURSIVE DuplicatesFrom(_, _)
DuplicatesFrom(data, i) ==
    IF i >= Len(data) THEN <<>>
    ELSE Issue(\E j \in 0..(i - 1) : At(data, j).ts = At(data, i).ts,
               "Duplicate timestamp", i)
         \o DuplicatesFrom(data, i + 1)

\* ValidateData with the series put in order before the duplicate check
ValidateDataSorting(b) ==
    IF Len(b) = 0 THEN [issues |-> <<<<"No data points found">>>>, data |-> b]
    ELSE [issues |-> IssuesFrom(b, 0) \o DuplicatesFrom(Sort(b), 0), data |-> Sort(b)]

\* returns the list of issues and the series as the call leaves it
ValidateData(b) ==
    IF Len(b) = 0 THEN [issues |-> <<<<"No data points found">>>>, data |-> b]
    ELSE [issues |-> IssuesFrom(b, 0) \o DuplicatesFrom(b, 0), data |-> b]

---------------------------------------------------------------------------
(* A run of the command line program: main loads a series or stops with    *)
(* log.Fatal, validates it, analyses it and writes its output.  The loaded *)
(* series have up to three bars, sound or defective (a price at 0, high    *)
(* below low, a negative volume, a date after Now), in any stored order.   *)

MainLens == 0..3

MainBars ==
    {Bar(t, BaseClose) : t \in 1..(Now + 1)}
        \cup {Candle(1, 1, 2, 0, 0), Candle(2, 3, 2, 4, 3),
              [Bar(2, BaseClose) EXCEPT !.volume = -1]}

MainSeries == UNION {[1..n -> MainBars] : n \in MainLens}

MainInit ==
    /\ bts = <<>>
    /\ loaded = <<>>
    /\ runs = <<>>
    /\ signals = {}
    /\ report = <<>>
    /\ panicked = FALSE
    /\ call = NoCall
    /\ out = <<>>
    /\ macd = EmptyMACD
    /\ ret = NoRet
    /\ pc = "start"
    /\ issues = <<>>

\* part_000:33-67 with a loader that returns a series
Load ==
    /\ pc = "start"
    /\ \E s \in MainSeries : bts' = s /\ loaded' = s
    /\ pc' = "loaded"
    /\ UNCHANGED <<runs, signals, report, panicked, call, out, macd, ret, issues>>

\* part_000:33-71: the loader returns an error or no series, log.Fatal exits
LoadFails ==
    /\ pc = "start"
    /\ pc' = "fatal"
    /\ UNCHANGED <<bts, loaded, runs, signals, report, panicked, call, out, macd, ret, issues>>

\* part_000:74-83
Validate ==
    /\ pc = "loaded"
    /\ LET r == ValidateData(bts)
       IN  issues' = r.issues /\ bts' = r.data
    /\ pc' = "validated"
    /\ UNCHANGED <<loaded, runs, signals, report, panicked, call, out, macd, ret>>

\* part_000:85-87
MainAnalysis ==
    /\ pc = "validated"
    /\ LET r == PerformComprehensiveAnalysis(bts)
       IN  runs' = Append(runs, r.analytics) /\ bts' = r.data
    /\ pc' = "analyzed"
    /\ UNCHANGED <<loaded, signals, report, panicked, call, out, macd, ret, issues>>

\* part_000:90: reporter.PrintSummary derives the trading signals
MainSummary ==
    /\ pc = "analyzed"
    /\ LET r == GetTradingSignals(bts, runs[Len(runs)])
       IN  signals' = r.signals /\ bts' = r.data
    /\ pc' = "summarized"
    /\ UNCHANGED <<loaded, runs, report, panicked, call, out, macd, ret, issues>>

\* part_000:93-101: with -html the template data hold the trading signals and
\* the text of GenerateReport, whose panic ends the run
MainHtmlReport ==
    /\ pc = "summarized"
    /\ \/ /\ pc' = "html"
          /\ UNCHANGED <<bts, signals, report, panicked>>
       \/ LET s == GetTradingSignals(bts, runs[Len(runs)])
              g == GenerateReport(s.data, runs[Len(runs)])
          IN  /\ signals' = s.signals
              /\ bts' = g.data
              /\ report' = IF g.panic THEN report ELSE g.lines
              /\ panicked' = g.panic
              /\ pc' = IF g.panic THEN "panicked" ELSE "html"
    /\ UNCHANGED <<loaded, runs, call, out, macd, ret, issues>>

\* part_000:103-111: with -json-report the trading signals and
\* CalculatePortfolioMetrics, which runs PerformBacktest from two points (the
\* metrics themselves are not modelled)
MainJsonReport ==
    /\ pc = "html"
    /\ \/ UNCHANGED <<bts, signals>>
       \/ LET s == GetTradingSignals(bts, runs[Len(runs)])
          IN  /\ signals' = s.signals
              /\ bts' = IF Len(s.data) < 2 THEN s.data
                        ELSE PerformBacktest(s.data, F(10000)).data
    /\ pc' = "json"
    /\ UNCHANGED <<loaded, runs, report, panicked, call, out, macd, ret, issues>>

\* part_000:113-118: SaveToCSV sorts the series once the file is created
MainSaveCSV ==
    /\ pc = "json"
    /\ bts' \in {bts, Sort(bts)}
    /\ pc' = "saved"
    /\ UNCHANGED <<loaded, runs, signals, report, panicked, call, out, macd, ret, issues>>

\* part_000:120-124: with -verbose the text report is printed
MainVerboseReport ==
    /\ pc = "saved"
    /\ \/ /\ pc' = "done"
          /\ UNCHANGED <<bts, report, panicked>>
       \/ LET g == GenerateReport(bts, runs[Len(runs)])
          IN  /\ bts' = g.data
              /\ report' = IF g.panic THEN report ELSE g.lines
              /\ panicked' = g.panic
              /\ pc' = IF g.panic THEN "panicked" ELSE "done"
    /\ UNCHANGED <<loaded, runs, signals, call, out, macd, ret, issues>>

MainNext ==
    \/ Load
    \/ LoadFails
    \/ Validate
    \/ MainAnalysis
    \/ MainSummary
    \/ MainHtmlReport
    \/ MainJsonReport
    \/ MainSaveCSV
    \/ MainVerboseReport

SpecMain == MainInit /\ [][MainNext]_vars

\* the statement main executes next, by its position: after the load main has
\* exactly one action at each position short of its end
Proceed ==
    \/ pc = "loaded" /\ pc' = "validated"
    \/ pc = "validated" /\ pc' = "analyzed"
    \/ pc = "analyzed" /\ pc' = "summarized"
    \/ pc = "summarized" /\ pc' \in {"html", "panicked"}
    \/ pc = "html" /\ pc' = "json"
    \/ pc = "json" /\ pc' = "saved"
    \/ pc = "saved" /\ pc' \in {"done", "panicked"}

\* main is sequential code without a wait: the statement it has reached is
\* executed
SpecMainFair == SpecMain /\ WF_pc(Proceed)

---------------------------------------------------------------------------
(* Properties of the indicator library (SpecInd) *)

Called(op) == call.op = op

IsFlat(b) == \A i \in 1..Len(b) : b[i].close = b[1].close

InUnit100(x) == RLe(Zero, x) /\ RLe(x, F(100))

\* C4: 15 bars that all close at the same positive value, period 14: the RSI
\* result is non-empty and its value is 100.
C4_FlatMarketRSIIs100 ==
    (Called("RSI") /\ call.args[1] = 14 /\ Len(bts) = 15 /\ IsFlat(bts))
        => (out # <<>> /\ \A i \in 1..Len(out) : out[i] = F(100))

\* C5: with period >= 1 and at least period+1 bars, every element of the RSI
\* result lies in [0, 100].
C5_RSIInRange ==
    (Called("RSI") /\ Len(bts) >= call.args[1] + 1)
        => \A i \in 1..Len(out) : InUnit100(out[i])

C5_Witness ==
    /\ Called("RSI") /\ Len(bts) >= call.args[1] + 1
    /\ Len(out) >= 3
    /\ RLt(Zero, out[1]) /\ RLt(out[1], F(100))
    /\ out[2] # out[1]

\* C6: the RSI result has n - period - 1 elements for n >= period+1 closes
\* and is empty for n < period+1.
C6_RSILength ==
    Called("RSI") =>
        IF Len(bts) >= call.args[1] + 1
        THEN Len(out) = Len(bts) - call.args[1] - 1
        ELSE out = <<>>

Min2(x, y) == IF x < y THEN x ELSE y

\* C8 as stated: with at least slowPeriod closes, signal and histogram are
\* shorter than the MACD line by exactly signalPeriod - 1.
C8_SignalShorterByPeriodMinusOne ==
    (Called("MACD") /\ Len(bts) >= call.args[2])
        => /\ Len(macd.Signal) = Len(macd.MACD) - (call.args[3] - 1)
           /\ Len(macd.Histogram) = Len(macd.MACD) - (call.args[3] - 1)

\* C8 amended: signal and histogram have the same length, which is
\* len(MACD) - (signalPeriod - 1) when the MACD line has at least
\* signalPeriod elements and 0 when it has fewer.
C8_SignalLength ==
    (Called("MACD") /\ Len(bts) >= call.args[2])
        => /\ Len(macd.Signal) = Len(macd.Histogram)
           /\ Len(macd.Signal) = IF Len(macd.MACD) >= call.args[3]
                                 THEN Len(macd.MACD) - (call.args[3] - 1)
                                 ELSE 0

C8_Witness ==
    /\ Called("MACD") /\ Len(bts) >= call.args[2]
    /\ call.args[3] >= 2
    /\ Len(macd.Signal) >= 2

\* C9: len(Histogram) = min(len(Signal), len(MACD)) and
\* Histogram[i] = MACD[len(MACD) - len(Signal) + i] - Signal[i].
C9_HistogramTailAligned ==
    Called("MACD") =>
        /\ Len(macd.Histogram) = Min2(Len(macd.Signal), Len(macd.MACD))
        /\ \A i \in 0..(Len(macd.Histogram) - 1) :
              At(macd.Histogram, i) =
                  RSub(At(macd.MACD, Len(macd.MACD) - Len(macd.Signal) + i), At(macd.Signal, i))

C9_Witness ==
    /\ Called("MACD")
    /\ Len(macd.Histogram) >= 2
    /\ Len(macd.MACD) > Len(macd.Signal)
    /\ At(macd.MACD, 0) # At(macd.MACD, Len(macd.MACD) - Len(macd.Signal))
    /\ At(macd.Histogram, 0) # Zero

\* C10: calculateEMA returns len - period + 1 elements, the first the simple
\* mean of the first `period` values, each later one
\* values[period-1+i]*k + ema[i-1]*(1-k) with k = 2/(period+1); empty when
\* len < period.
C10_EMA ==
    Called("EMA") =>
        LET values == GetClosePrices(bts)
            period == call.args[1]
        IN  IF Len(values) >= period
            THEN /\ Len(out) = Len(values) - period + 1
                 /\ RMul(At(out, 0), F(period)) = SumFrom(values, 0, period)
                 /\ \A i \in 1..(Len(out) - 1) :
                       RMul(At(out, i), F(period + 1)) =
                           RAdd(RMul(At(values, period - 1 + i), F(2)),
                                RMul(At(out, i - 1), F(period - 1)))
            ELSE out = <<>>

C10_Witness ==
    /\ Called("EMA")
    /\ call.args[1] >= 2
    /\ Len(out) >= 3
    /\ At(out, 2) # At(out, 1) /\ At(out, 1) # At(out, 0)


---------------------------------------------------------------------------
(* Properties of the engine (Spec) *)

\* the aggregates in runs were returned by calls of PerformComprehensiveAnalysis
\* with no other operation in between: GetTradingSignals always records a
\* trend entry, GenerateReport either writes a heading or fails
OnlyAnalyzed == signals = {} /\ report = <<>> /\ ~panicked

\* C1: for a series of any length, PerformComprehensiveAnalysis, then
\* GetTradingSignals and GenerateReport on its result, complete without an
\* out-of-range index.
C1_NoRuntimeFailure == panicked = FALSE

\* C2: for a series stored in any order, the aggregate returned by
\* PerformComprehensiveAnalysis equals the aggregate of the same points stored
\* in ascending timestamp order.
C2_SortsDefensively ==
    (OnlyAnalyzed /\ Len(runs) >= 1)
        => runs[1] = PerformComprehensiveAnalysis(Sort(loaded)).analytics

\* C3: two successive calls of PerformComprehensiveAnalysis on the same
\* series return equal aggregates.
C3_SuccessiveAnalysesEqual ==
    OnlyAnalyzed => \A k \in 1..(Len(runs) - 1) : runs[k] = runs[k + 1]

\* what C7 says of every field but the RSI: statistics and returns are filled
\* exactly from 2 points, the MACD result from 26, the Bollinger bands from 20;
\* no level is derived below 10 points and from 10 points on the series has
\* been sorted for the level search
PresenceOtherThanRSI(a, n) ==
    /\ (a.PriceStats # ZeroStatistics) <=> (n >= 2)
    /\ (a.VolumeStats # ZeroStatistics) <=> (n >= 2)
    /\ (a.Returns # <<>>) <=> (n >= 2)
    /\ (a.LogReturns # <<>>) <=> (n >= 2)
    /\ (a.MACD.MACD # <<>>) <=> (n >= 26)
    /\ (a.BollingerBands.Upper # <<>>) <=> (n >= 20)
    /\ (a.BollingerBands.Middle # <<>>) <=> (n >= 20)
    /\ (a.BollingerBands.Lower # <<>>) <=> (n >= 20)
    /\ (n < 10) => (a.SupportResistance = EmptyLevels)
    /\ (n >= 10) => (bts = Sort(loaded))

\* C7 as stated: presence at the thresholds 2 / 14 / 26 / 20 / 10, the RSI
\* being non-empty exactly from 14 points.
C7_PresenceAtDocumentedThresholds ==
    \A k \in 1..Len(runs) :
        /\ PresenceOtherThanRSI(runs[k], Len(loaded))
        /\ (runs[k].RSI # <<>>) <=> (Len(loaded) >= 14)

\* C7 amended: as stated, except that the RSI is non-empty exactly from 15
\* points (one more than its period).
C7_PresenceThresholds ==
    \A k \in 1..Len(runs) :
        /\ PresenceOtherThanRSI(runs[k], Len(loaded))
        /\ (runs[k].RSI # <<>>) <=> (Len(loaded) >= 15)

C7_Witness ==
    /\ Len(runs) >= 1
    /\ Len(loaded) = 14
    /\ runs[1].RSI = <<>>
    /\ runs[1].PriceStats.Count = 14
    /\ Len(runs[1].Returns) = 13
    /\ runs[1].MACD = EmptyMACD
    /\ bts = Sort(loaded) /\ bts # loaded

---------------------------------------------------------------------------
(* Properties of the statistics, risk and pattern functions (SpecLib) *)

\* the closes of the series are all positive
PositiveCloses(b) == \A i \in 1..Len(b) : b[i].close > 0

RunningPeak(b, i) ==
    CHOOSE p \in {b[j].close : j \in 1..i} : \A j \in 1..i : b[j].close <= p

\* (running peak - close) / running peak at bar i, for a positive peak
DrawdownAt(b, i) ==
    RDiv(F(RunningPeak(b, i) - b[i].close), F(RunningPeak(b, i)))

NonDecreasingCloses(b) == \A i \in 1..(Len(b) - 1) : b[i].close <= b[i + 1].close

\* C12: CalculateMaxDrawdown is never negative, is 0 for an empty series and
\* for non-decreasing closes, and otherwise is the largest
\* (running peak - close) / running peak of the forward pass.
C12_MaxDrawdown ==
    Called("CalculateMaxDrawdown") =>
        LET peaked == {i \in 1..Len(bts) : RunningPeak(bts, i) > 0}
        IN  /\ RLe(Zero, ret.num)
            /\ (bts = <<>> \/ NonDecreasingCloses(bts)) => ret.num = Zero
            /\ \A i \in peaked : RLe(DrawdownAt(bts, i), ret.num)
            /\ ~NonDecreasingCloses(bts) => \E i \in peaked : ret.num = DrawdownAt(bts, i)

C12_Witness ==
    /\ Called("CalculateMaxDrawdown")
    /\ Len(bts) = 3
    /\ bts[1].close > bts[2].close /\ bts[2].close > 0
    /\ bts[3].close > bts[2].close /\ bts[3].close < bts[1].close
    /\ ret.num = DrawdownAt(bts, 2)

\* C13: no call evaluates a quotient with a zero denominator, and no value
\* returned is NaN or infinite.
C13_DivisionsGuarded ==
    /\ ~ret.zeroDiv
    /\ \A e \in ret.map : e[2] # NotFinite

\* the bars of earliest and of latest timestamp, for a series in which each is
\* the only bar of its timestamp
Earliest(b) == CHOOSE i \in 1..Len(b) : \A j \in 1..Len(b) : j # i => b[i].ts < b[j].ts

Latest(b) == CHOOSE i \in 1..Len(b) : \A j \in 1..Len(b) : j # i => b[j].ts < b[i].ts

HasEarliestAndLatest(b) ==
    /\ \E i \in 1..Len(b) : \A j \in 1..Len(b) : j # i => b[i].ts < b[j].ts
    /\ \E i \in 1..Len(b) : \A j \in 1..Len(b) : j # i => b[j].ts < b[i].ts

\* the value the mapping m holds under key k (m holds one)
ValueOf(m, k) == CHOOSE v \in {e[2] : e \in {x \in m : x[1] = k}} : TRUE

HasKey(m, k) == \E e \in m : e[1] = k

\* C14: on >= 2 points PerformBacktest buys at the close of the
\* earliest-timestamp point and values at the close of the latest-timestamp
\* point: btc_purchased = startAmount / startPrice and total_return =
\* (btc_purchased * endPrice - startAmount) / startAmount; 10000 at 100, valued
\* at 150, gives 0.5 and 100; with fewer than 2 points the mapping is empty.
C14_Backtest ==
    Called("PerformBacktest") =>
        LET startAmount == F(call.args[1])
            startPrice == F(loaded[Earliest(loaded)].close)
            endPrice == F(loaded[Latest(loaded)].close)
        IN  /\ Len(loaded) < 2 => ret.map = {}
            /\ (/\ Len(loaded) >= 2 /\ HasEarliestAndLatest(loaded)
                /\ startAmount # Zero /\ startPrice # Zero)
                  => /\ \A e1, e2 \in ret.map : e1[1] = e2[1] => e1 = e2
                     /\ HasKey(ret.map, "btc_purchased") /\ HasKey(ret.map, "total_return")
                     /\ ValueOf(ret.map, "btc_purchased") = RDiv(startAmount, startPrice)
                     /\ ValueOf(ret.map, "total_return") =
                            RDiv(RSub(RMul(RDiv(startAmount, startPrice), endPrice),
                                      startAmount),
                                 startAmount)
                     /\ (startAmount = F(10000) /\ startPrice = F(100) /\ endPrice = F(150))
                            => /\ ValueOf(ret.map, "total_return") = <<1, 2>>
                               /\ ValueOf(ret.map, "btc_purchased") = F(100)

C14_Witness ==
    /\ Called("PerformBacktest") /\ call.args[1] = 10000
    /\ loaded = <<Bar(2, 150), Bar(1, 100)>>
    /\ <<"total_return", <<1, 2>>>> \in ret.map
    /\ <<"btc_purchased", F(100)>> \in ret.map

\* the label for a rise or fall from a positive close `from` to the close `to`:
\* more than +5% up, more than -5% down, anything else sideways
TrendOf(from, to) ==
    IF (to - from) * 100 > 5 * from THEN "uptrend"
    ELSE IF (to - from) * 100 < -5 * from THEN "downtrend"
    ELSE "sideways"

RoundsTo(x, n) == RLe(RAbs(RSub(RMul(x, F(10000)), F(n))), <<1, 2>>)

\* C16: for n >= 2 points CalculateReturns returns n-1 simple returns
\* (close[i]-close[i-1])/close[i-1] and n-1 log returns ln(close[i]/close[i-1])
\* (a log return is held as the argument of ln); 100,102,101,105,103 give 0.02,
\* -0.0098, 0.0396, -0.019; both are empty for n < 2; an element whose
\* denominator is <= 0 stays 0 in both.
C16_Returns ==
    Called("CalculateReturns") =>
        LET n == Len(bts)
        IN  IF n < 2 THEN out = <<>> /\ ret.seq = <<>>
            ELSE /\ Len(out) = n - 1 /\ Len(ret.seq) = n - 1
                 /\ \A i \in 1..(n - 1) :
                       IF bts[i].close > 0
                       THEN /\ RMul(out[i], F(bts[i].close))
                                 = F(bts[i + 1].close - bts[i].close)
                            /\ RMul(ret.seq[i], F(bts[i].close)) = F(bts[i + 1].close)
                       ELSE out[i] = Zero /\ ret.seq[i] = F(1)
                 /\ GetClosePrices(bts) = <<F(100), F(102), F(101), F(105), F(103)>>
                       => /\ RoundsTo(out[1], 200) /\ RoundsTo(out[2], -98)
                          /\ RoundsTo(out[3], 396) /\ RoundsTo(out[4], -190)

C16_Witness ==
    /\ Called("CalculateReturns")
    /\ GetClosePrices(bts) = <<F(100), F(102), F(101), F(105), F(103)>>
    /\ out = <<<<1, 50>>, <<-1, 102>>, <<4, 101>>, <<-2, 105>>>>
    /\ ret.seq[2] = <<101, 102>>

\* the labels of GetTradingSignals by their first word
BuyLabels == {"BUY - Oversold", "BUY - Bullish crossover", "BUY - Price below lower band",
              "BUY - Uptrend detected", "BUY - Near support level"}

SellLabels == {"SELL - Overbought", "SELL - Bearish crossover",
               "SELL - Price above upper band", "SELL - Downtrend detected",
               "SELL - Near resistance level"}

HoldLabels == {"HOLD - Neutral", "HOLD - Bullish", "HOLD - Bearish",
               "HOLD - Price in normal range", "HOLD - Sideways movement"}

\* the labels filed under a signal name
LabelsOf(name) == {e[2] : e \in {x \in signals : x[1] = name}}

\* C18: every label GetTradingSignals emits begins with BUY, SELL or HOLD; the
\* "RSI" entry is SELL (overbought) when the latest RSI of the aggregate is
\* > 70, BUY (oversold) when it is < 30, HOLD (neutral) otherwise, and is
\* absent when the aggregate's RSI is empty.
C18_SignalLabels ==
    Called("GetTradingSignals") =>
        LET rsi == runs[Len(runs)].RSI
            latestRSI == rsi[Len(rsi)]
        IN  /\ \A e \in signals : e[2] \in BuyLabels \cup SellLabels \cup HoldLabels
            /\ IF rsi = <<>> THEN LabelsOf("RSI") = {}
               ELSE LabelsOf("RSI") =
                        {IF RLt(F(70), latestRSI) THEN "SELL - Overbought"
                         ELSE IF RLt(latestRSI, F(30)) THEN "BUY - Oversold"
                         ELSE "HOLD - Neutral"}

C18_Witness ==
    /\ Called("GetTradingSignals")
    /\ runs[1].RSI = <<F(50), F(70)>>
    /\ <<"RSI", "HOLD - Neutral">> \in signals
    /\ <<"Trend", "HOLD - Sideways movement">> \in signals

\* how often the point x occurs in the series s
Occurrences(s, x) == Cardinality({i \in 1..Len(s) : s[i] = x})

SameMultiset(s, t) ==
    /\ Len(s) = Len(t)
    /\ \A i \in 1..Len(s) : Occurrences(s, s[i]) = Occurrences(t, s[i])

IsAscending(s) == \A i \in 1..(Len(s) - 1) : s[i].ts <= s[i + 1].ts

\* C17: whatever engine call is made, the series keeps the multiset of points
\* it was loaded with, the call either leaves the stored order alone or leaves
\* the series ascending by timestamp, and a series already ascending keeps the
\* order of all its points, those sharing a timestamp included.
C17_FrameEffect ==
    [][/\ SameMultiset(bts', loaded) /\ loaded' = loaded
       /\ bts' = bts \/ IsAscending(bts')
       /\ IsAscending(bts) => bts' = bts]_vars

C17_Witness ==
    /\ bts # loaded
    /\ IsAscending(bts)
    /\ \E i \in 1..(Len(bts) - 1) : bts[i].ts = bts[i + 1].ts /\ bts[i] # bts[i + 1]
    /\ Called("DetectCandlestickPatterns")
    /\ Len(runs) = MaxRuns
    /\ signals # {}

\* C19: in a run of the program, once a series has been loaded ValidateData
\* runs and leaves the series as it is, and PerformComprehensiveAnalysis runs
\* next, whatever issues the validation returned.
C19_ValidationNeverBlocks ==
    /\ [][/\ pc = "loaded" => pc' = "validated" /\ bts' = bts
          /\ pc = "validated" => pc' = "analyzed" /\ Len(runs') = Len(runs) + 1]_vars
    /\ (pc = "loaded") ~> (pc = "validated")
    /\ (pc = "validated") ~> (pc = "analyzed" /\ Len(runs) = 1)

C19_Witness ==
    /\ pc = "analyzed"
    /\ Len(runs) = 1
    /\ loaded # Sort(loaded)
    /\ bts = loaded
    /\ Len(issues) >= 3
    /\ issues[1] = <<"Invalid price data", 0>>

PivotKeys == {"pivot", "r1", "s1", "r2", "s2", "r3", "s3"}

---------------------------------------------------------------------------
(* The pattern detector and the window indicators called on their own: a    *)
(* series of candles of several shapes, then one call.                       *)

\* candle shapes as <<open, high, low, close>>: a doji, a hammer, a shooting
\* star, a long rising and a long falling candle, a small candle that gaps
\* below, or above, the long ones, a bar without range, and a bar whose close
\* lies above its high
CandleShapes ==
    [doji    |-> <<100, 105, 95, 100>>,
     hammer  |-> <<100, 104, 80, 104>>,
     star    |-> <<104, 124, 100, 100>>,
     rise    |-> <<98, 121, 97, 120>>,
     fall    |-> <<121, 122, 98, 99>>,
     lowgap  |-> <<90, 92, 88, 91>>,
     highgap |-> <<125, 127, 123, 126>>,
     flat    |-> <<100, 100, 100, 100>>,
     beyond  |-> <<100, 105, 95, 110>>]

AllShapes == DOMAIN CandleShapes

StarShapes == {"rise", "fall", "lowgap", "highgap"}

ShapedCandle(t, name) ==
    Candle(t, CandleShapes[name][1], CandleShapes[name][2],
           CandleShapes[name][3], CandleShapes[name][4])

CandlesOf(names) == [i \in 1..Len(names) |-> ShapedCandle(i, names[i])]

\* every series of up to 3 candles of any shape, and of 4 or 5 candles of the
\* long and gapped shapes
CandleSeries ==
    {CandlesOf(names) : names \in UNION {[1..n -> AllShapes] : n \in 0..3}}
        \cup {CandlesOf(names) : names \in UNION {[1..n -> StarShapes] : n \in 4..5}}

\* series of 3 candles stored latest first
LatestFirstSeries ==
    {Reversed(CandlesOf(names)) : names \in [1..3 -> StarShapes]}

PatSeries == CandleSeries \cup LatestFirstSeries

PatInit ==
    /\ bts \in PatSeries
    /\ loaded = bts
    /\ runs = <<>>
    /\ signals = {}
    /\ report = <<>>
    /\ panicked = FALSE
    /\ call = NoCall
    /\ out = <<>>
    /\ macd = EmptyMACD
    /\ ret = NoRet
    /\ pc = "idle"
    /\ issues = <<>>

CallCandlestickPatterns ==
    /\ call = NoCall
    /\ LET r == DetectCandlestickPatterns(bts)
       IN  /\ call' = [op |-> "DetectCandlestickPatterns", args |-> <<>>]
           /\ ret' = [NoRet EXCEPT !.map = r.patterns]
           /\ bts' = r.data
    /\ UNCHANGED <<loaded, runs, signals, report, panicked, out, macd, pc, issues>>

\* part_002:703-704: the fractions and, position by position, the names they
\* are stored under
fibLevels == <<Zero, <<236, 1000>>, <<382, 1000>>, <<1, 2>>, <<618, 1000>>, <<786, 1000>>, F(1)>>

fibNames == <<"high", "fib_76_4", "fib_61_8", "fib_50", "fib_38_2", "fib_23_6", "low">>

\* part_002:687-698: the extrema of a non-empty run of bars
HighestHigh(d) == CHOOSE h \in {d[i].high : i \in 1..Len(d)} : \A i \in 1..Len(d) : d[i].high <= h

LowestLow(d) == CHOOSE l \in {d[i].low : i \in 1..Len(d)} : \A i \in 1..Len(d) : l <= d[i].low

\* the map as the set of its <<name, value>> entries; the call panics when
\* the window bts.Data[len-period:] is empty or starts beyond the series
CalculateFibonacciRetracements(b, period) ==
    IF Len(b) < period THEN [fibs |-> {}, panic |-> FALSE]
    ELSE IF period <= 0 THEN [fibs |-> {}, panic |-> TRUE]
    ELSE LET recentData == SliceFrom(b, Len(b) - period)
             high == HighestHigh(recentData)
             low == LowestLow(recentData)
             range == F(high - low)
         IN  [fibs |-> {<<fibNames[i], RSub(F(high), RMul(range, fibLevels[i]))>> :
                           i \in 1..Len(fibLevels)},
              panic |-> FALSE]

CallFibonacciRetracements ==
    /\ call = NoCall
    /\ \E period \in 0..MaxPeriod :
          LET r == CalculateFibonacciRetracements(bts, period)
          IN  /\ call' = [op |-> "CalculateFibonacciRetracements", args |-> <<period>>]
              /\ ret' = [NoRet EXCEPT !.map = r.fibs]
              /\ panicked' = r.panic
    /\ UNCHANGED <<bts, loaded, runs, signals, report, out, macd, pc, issues>>

\* %K without the midpoint default: a window without range gives 0
StochasticKFlatZero(currentClose, lowestLow, highestHigh) ==
    IF highestHigh - lowestLow # 0
    THEN RMul(RDiv(F(currentClose - lowestLow), F(highestHigh - lowestLow)), F(100))
    ELSE Zero

\* indicators.go:213-219: %K of a close in a window with the given extrema
StochasticK(currentClose, lowestLow, highestHigh) ==
    IF highestHigh - lowestLow # 0
    THEN RMul(RDiv(F(currentClose - lowestLow), F(highestHigh - lowestLow)), F(100))
    ELSE F(50)

\* indicators.go:192-223; with kPeriod <= 0 the loop starts below index 0 and
\* the call panics on its first read of the series
CalculateStochasticOscillator(b, kPeriod) ==
    IF Len(b) < kPeriod THEN [stochastic |-> <<>>, panic |-> FALSE]
    ELSE IF kPeriod <= 0 THEN [stochastic |-> <<>>, panic |-> TRUE]
    ELSE [stochastic |->
             SubSeq([k \in 1..(Len(b) - kPeriod + 1) |->
                        LET window == SubSeq(b, k, k + kPeriod - 1)
                        IN  StochasticK(b[k + kPeriod - 1].close,
                                        LowestLow(window), HighestHigh(window))],
                    1, Len(b) - kPeriod + 1),
          panic |-> FALSE]

CallStochasticOscillator ==
    /\ call = NoCall
    /\ \E kPeriod \in 0..MaxPeriod :
          LET r == CalculateStochasticOscillator(bts, kPeriod)
          IN  /\ call' = [op |-> "CalculateStochasticOscillator", args |-> <<kPeriod>>]
              /\ out' = r.stochastic
              /\ panicked' = r.panic
    /\ UNCHANGED <<bts, loaded, runs, signals, report, macd, ret, pc, issues>>

CallSupportResistanceLevels ==
    /\ call = NoCall
    /\ \E lookbackPeriod \in 0..2, tolerance \in Tolerances :
          LET r == FindSupportResistanceLevels(bts, lookbackPeriod, tolerance)
          IN  /\ call' = [op |-> "FindSupportResistanceLevels",
                          args |-> <<lookbackPeriod, tolerance>>]
              /\ out' = r.levels.SupportLevels
              /\ ret' = [NoRet EXCEPT !.seq = r.levels.ResistanceLevels]
              /\ bts' = r.data
    /\ UNCHANGED <<loaded, runs, signals, report, panicked, macd, pc, issues>>

PatNext == CallCandlestickPatterns \/ CallFibonacciRetracements \/ CallStochasticOscillator \/ CallSupportResistanceLevels

SpecPat == PatInit /\ [][PatNext]_vars

---------------------------------------------------------------------------
(* The calls that need a longer history: GetRiskMetrics (30 points) and     *)
(* DetectVolumePatterns (20 bars), on a quiet series whose last two bars    *)
(* move, and the two pattern detectors side by side on the candle series.   *)

LongLens == {0, 2, 19, 20, 21, 29, 30, 31}
TailCloses == {-4, 2, 3, 4, 5}
TailVolumes == {1, 10, 100}

\* bar i of a series of n bars: close 4 and volume 10 up to the last two
\* bars, which close at c1 and c2; the last bar trades the volume v
LongBar(n, i, c1, c2, v) ==
    [Bar(i, IF i = n THEN c2 ELSE IF i = n - 1 THEN c1 ELSE 4) EXCEPT
        !.volume = IF i = n THEN v ELSE 10]

LongSeries ==
    {SubSeq([i \in 1..n |-> LongBar(n, i, c1, c2, v)], 1, n) :
        n \in LongLens, c1 \in TailCloses, c2 \in TailCloses, v \in TailVolumes}

LongInit ==
    /\ bts \in LongSeries \cup CandleSeries
    /\ loaded = bts
    /\ runs = <<>>
    /\ signals = {}
    /\ report = <<>>
    /\ panicked = FALSE
    /\ call = NoCall
    /\ out = <<>>
    /\ macd = EmptyMACD
    /\ ret = NoRet
    /\ pc = "idle"
    /\ issues = <<>>

CallRiskMetrics ==
    /\ call = NoCall
    /\ call' = [op |-> "GetRiskMetrics", args |-> <<>>]
    /\ ret' = [NoRet EXCEPT !.map = GetRiskMetrics(bts)]
    /\ UNCHANGED <<bts, loaded, runs, signals, report, panicked, out, macd, pc, issues>>

CallVolumePatterns ==
    /\ call = NoCall
    /\ call' = [op |-> "DetectVolumePatterns", args |-> <<>>]
    /\ ret' = [NoRet EXCEPT !.map = DetectVolumePatterns(bts)]
    /\ UNCHANGED <<bts, loaded, runs, signals, report, panicked, out, macd, pc, issues>>

LongNext == CallRiskMetrics \/ CallVolumePatterns \/ CallCandlestickPatterns

SpecLong == LongInit /\ [][LongNext]_vars

---------------------------------------------------------------------------
(* Properties of the statistics, indicators and patterns, second part *)

\* how many elements of v lie below x, and at or below x
CountBelow(v, x) == Cardinality({i \in 1..Len(v) : RLt(v[i], x)})

CountAtMost(v, x) == Cardinality({i \in 1..Len(v) : RLe(v[i], x)})

\* the k-th smallest element of v, k in 1..Len(v)
KthSmallest(v, k) ==
    CHOOSE x \in {v[i] : i \in 1..Len(v)} : CountBelow(v, x) < k /\ CountAtMost(v, x) >= k

\* the sum of the elements of v, and of their squared distances to m
RECURSIVE Total(_)
Total(v) == IF v = <<>> THEN Zero ELSE RAdd(v[1], Total(Tail(v)))

RECURSIVE TotalSquares(_, _)
TotalSquares(v, m) ==
    IF v = <<>> THEN Zero
    ELSE RAdd(RMul(RSub(v[1], m), RSub(v[1], m)), TotalSquares(Tail(v), m))

RECURSIVE Power(_, _)
\* a to the n-th, n >= 0
Power(a, n) ==
    IF n = 0 THEN F(1)
    ELSE LET h == Power(a, n \div 2)
         IN  IF n % 2 = 0 THEN RMul(h, h) ELSE RMul(a, RMul(h, h))

\* the EMA of the given period whose latest close is the one at Go index k,
\* k >= period - 1, unrolled: with m = 2/(period+1), the average of the first
\* `period` closes weighted (1-m)^(k-period+1), plus every later close j <= k
\* weighted m * (1-m)^(k-j)
EmaEndingAt(prices, period, k) ==
    LET m == RDiv(F(2), F(period + 1))
        seed == RDiv(Total(SubSeq(prices, 1, period)), F(period))
        later == SubSeq([j \in 1..(k + 1) |->
                            IF j - 1 < period THEN Zero
                            ELSE RMul(prices[j],
                                      RMul(m, Power(RSub(F(1), m), k - (j - 1)))) ],
                        1, k + 1)
    IN  RAdd(RMul(seed, Power(RSub(F(1), m), k - period + 1)), Total(later))

\* C23: with len(closes) >= slowPeriod >= fastPeriod the MACD line has
\* len(closes) - slowPeriod + 1 elements, and element i is the fast EMA minus
\* the slow EMA that both end at the close of index slowPeriod - 1 + i; with
\* fewer than slowPeriod closes the result is empty.
C23_MACDLineAligned ==
    Called("MACD") =>
        LET prices == GetClosePrices(bts)
            fastPeriod == call.args[1]
            slowPeriod == call.args[2]
        IN  IF Len(prices) < slowPeriod THEN macd = EmptyMACD
            ELSE /\ Len(macd.MACD) = Len(prices) - slowPeriod + 1
                 /\ \A i \in 0..(Len(macd.MACD) - 1) :
                       /\ At(macd.MACD, i) =
                             RSub(EmaEndingAt(prices, fastPeriod, slowPeriod - 1 + i),
                                  EmaEndingAt(prices, slowPeriod, slowPeriod - 1 + i))
                       /\ At(macd.MACD, i) =
                             RSub(At(calculateEMA(prices, fastPeriod),
                                     i + slowPeriod - fastPeriod),
                                  At(calculateEMA(prices, slowPeriod), i))

C23_Witness ==
    /\ Called("MACD")
    /\ call.args[1] = 1 /\ call.args[2] = 3
    /\ Len(bts) = 5
    /\ Len(macd.MACD) = 3
    /\ macd.MACD[1] # Zero /\ macd.MACD[3] # macd.MACD[1]

\* the indices listed under a key of a pattern map, none when the key is absent
Listed(m, name) ==
    IF \E e \in m : e[1] = name
    THEN LET l == (CHOOSE e \in m : e[1] = name)[2] IN {l[k] : k \in 1..Len(l)}
    ELSE {}

\* C24: on a series of >= 3 bars every bar index i is listed under doji
\* exactly when bar i has range > 0 and body/range < 0.10, likewise under
\* hammer and shooting_star; every index with a predecessor is listed under the
\* engulfing patterns exactly when they hold; the stars are evaluated for every
\* index >= 2, also on exactly 3 bars; with fewer than 3 bars the map is empty.
C24_EveryBarClassified ==
    Called("DetectCandlestickPatterns") =>
        IF Len(bts) < 3 THEN ret.map = {}
        ELSE /\ \A i \in 0..(Len(bts) - 1) :
                   /\ i \in Listed(ret.map, "doji") <=> isDoji(At(bts, i))
                   /\ i \in Listed(ret.map, "hammer") <=> isHammer(At(bts, i))
                   /\ i \in Listed(ret.map, "shooting_star") <=> isShootingStar(At(bts, i))
             /\ \A i \in 1..(Len(bts) - 1) :
                   /\ i \in Listed(ret.map, "bullish_engulfing")
                        <=> isBullishEngulfing(At(bts, i - 1), At(bts, i))
                   /\ i \in Listed(ret.map, "bearish_engulfing")
                        <=> isBearishEngulfing(At(bts, i - 1), At(bts, i))
             /\ \A i \in 2..(Len(bts) - 1) :
                   /\ i \in Listed(ret.map, "morning_star")
                        <=> isMorningStar(At(bts, i - 2), At(bts, i - 1), At(bts, i))
                   /\ i \in Listed(ret.map, "evening_star")
                        <=> isEveningStar(At(bts, i - 2), At(bts, i - 1), At(bts, i))

\* what the loop does: the same rules for the indices 1 .. len-2 only (the
\* stars for 2 .. len-2); the first and the last bar are never listed
C24_InnerBarsClassified ==
    Called("DetectCandlestickPatterns") =>
        IF Len(bts) < 3 THEN ret.map = {}
        ELSE /\ \A i \in 0..(Len(bts) - 1) :
                   LET inner == 1 <= i /\ i <= Len(bts) - 2
                   IN  /\ i \in Listed(ret.map, "doji") <=> (inner /\ isDoji(At(bts, i)))
                       /\ i \in Listed(ret.map, "hammer") <=> (inner /\ isHammer(At(bts, i)))
                       /\ i \in Listed(ret.map, "shooting_star")
                            <=> (inner /\ isShootingStar(At(bts, i)))
                       /\ i \in Listed(ret.map, "bullish_engulfing")
                            <=> (inner /\ isBullishEngulfing(At(bts, i - 1), At(bts, i)))
                       /\ i \in Listed(ret.map, "bearish_engulfing")
                            <=> (inner /\ isBearishEngulfing(At(bts, i - 1), At(bts, i)))
                       /\ i \in Listed(ret.map, "morning_star")
                            <=> (inner /\ i >= 2
                                 /\ isMorningStar(At(bts, i - 2), At(bts, i - 1), At(bts, i)))
                       /\ i \in Listed(ret.map, "evening_star")
                            <=> (inner /\ i >= 2
                                 /\ isEveningStar(At(bts, i - 2), At(bts, i - 1), At(bts, i)))

\* three bars that form a morning star, the last of them after a doji-free
\* start: nothing is listed for the last bar
C24_Witness ==
    /\ Called("DetectCandlestickPatterns")
    /\ Len(bts) = 3
    /\ isMorningStar(bts[1], bts[2], bts[3])
    /\ ret.map = {}

\* the order in which GenerateReport lists the levels (part_002:244)
ReportedFibLevels == <<"high", "fib_23_6", "fib_38_2", "fib_50", "fib_61_8", "fib_76_4", "low">>

\* C25: with len >= period the call returns seven named levels, each
\* high - range*fraction for the maximum high and minimum low of the last
\* `period` bars, "high" the maximum high and "low" the minimum low, and in
\* the order high, fib_23_6, fib_38_2, fib_50, fib_61_8, fib_76_4, low the
\* prices are non-increasing; with fewer than `period` bars the map is empty.
C25_FibonacciLevelsDescend ==
    (Called("CalculateFibonacciRetracements") /\ call.args[1] >= 1) =>
        LET period == call.args[1]
            window == SubSeq(bts, Len(bts) - period + 1, Len(bts))
        IN  IF Len(bts) < period THEN ret.map = {}
            ELSE /\ {e[1] : e \in ret.map} = {ReportedFibLevels[i] : i \in 1..7}
                 /\ Cardinality(ret.map) = 7
                 /\ ValueOf(ret.map, "high") = F(HighestHigh(window))
                 /\ ValueOf(ret.map, "low") = F(LowestLow(window))
                 /\ \A e \in ret.map : \E i \in 1..7 :
                       e[2] = RSub(F(HighestHigh(window)),
                                   RMul(F(HighestHigh(window) - LowestLow(window)),
                                        fibLevels[i]))
                 /\ \A i \in 1..6 :
                       RLe(ValueOf(ret.map, ReportedFibLevels[i + 1]),
                           ValueOf(ret.map, ReportedFibLevels[i]))

\* what the call returns: the level stored under fibNames[i] is
\* high - range*fibLevels[i], so fib_76_4 is the one nearest the high and
\* fib_23_6 the one nearest the low
C25_LevelsAsPaired ==
    (Called("CalculateFibonacciRetracements") /\ call.args[1] >= 1) =>
        LET period == call.args[1]
            window == SubSeq(bts, Len(bts) - period + 1, Len(bts))
        IN  IF Len(bts) < period THEN ret.map = {}
            ELSE /\ Cardinality(ret.map) = 7
                 /\ \A i \in 1..7 :
                       <<fibNames[i],
                         RSub(F(HighestHigh(window)),
                              RMul(F(HighestHigh(window) - LowestLow(window)),
                                   fibLevels[i]))>> \in ret.map

\* a window of two bars with high 122 and low 80: fib_23_6 = 88.988 lies
\* below fib_38_2 = 96.044
C25_Witness ==
    /\ Called("CalculateFibonacciRetracements")
    /\ call.args[1] = 2
    /\ Len(bts) = 3
    /\ ValueOf(ret.map, "high") = F(122)
    /\ ValueOf(ret.map, "low") = F(80)
    /\ ValueOf(ret.map, "fib_23_6") = <<22247, 250>>
    /\ ValueOf(ret.map, "fib_38_2") = <<24011, 250>>

\* the highest high and the lowest low among the bars lo..hi of the series
\* (1-based, lo <= hi)
MaxHighIn(b, lo, hi) == CHOOSE h \in {b[j].high : j \in lo..hi} : \A j \in lo..hi : b[j].high <= h

MinLowIn(b, lo, hi) == CHOOSE l \in {b[j].low : j \in lo..hi} : \A j \in lo..hi : l <= b[j].low

\* the stated length and value of every %K: one per window of kPeriod
\* consecutive bars, 50 when the window has no range, else
\* (close - lowestLow)/(highestHigh - lowestLow)*100
StochasticAsStated ==
    LET kPeriod == call.args[1]
    IN  IF Len(bts) < kPeriod THEN out = <<>>
        ELSE /\ Len(out) = Len(bts) - kPeriod + 1
             /\ \A k \in 1..Len(out) :
                   LET hh == MaxHighIn(bts, k, k + kPeriod - 1)
                       ll == MinLowIn(bts, k, k + kPeriod - 1)
                       close == bts[k + kPeriod - 1].close
                   IN  IF hh = ll THEN out[k] = F(50)
                       ELSE out[k] = RMul(RDiv(F(close - ll), F(hh - ll)), F(100))

FullWindow(d, lookback) == {p \in 1..Len(d) : p - lookback >= 1 /\ p + lookback <= Len(d)}

LowPivots(d, lookback) ==
    {p \in FullWindow(d, lookback) :
        ~ \E q \in (p - lookback)..(p + lookback) : q # p /\ d[q].low < d[p].low}

HighPivots(d, lookback) ==
    {p \in FullWindow(d, lookback) :
        ~ \E q \in (p - lookback)..(p + lookback) : q # p /\ d[q].high > d[p].high}

\* the members of a set of positions as an ascending sequence
InOrder(ps, n) == SelectSeq(SubSeq([p \in 1..n |-> p], 1, n), LAMBDA p : p \in ps)

\* C27: FindSupportResistanceLevels returns empty level sets when len <
\* 2*lookback; otherwise, over the series sorted by timestamp, exactly the bars
\* with a full centered window whose low no other bar of the window undercuts
\* contribute their low to the support candidates (their high to the
\* resistance candidates when none exceeds it), and the returned sets are the
\* clustered candidates.
C27_SupportResistanceCandidates ==
    Called("FindSupportResistanceLevels") =>
        LET lookback == call.args[1]
            tolerance == call.args[2]
        IN  IF Len(loaded) < 2 * lookback THEN out = <<>> /\ ret.seq = <<>> /\ bts = loaded
            ELSE LET lows == InOrder(LowPivots(bts, lookback), Len(bts))
                     highs == InOrder(HighPivots(bts, lookback), Len(bts))
                 IN  /\ IsAscending(bts) /\ SameMultiset(bts, loaded)
                     /\ out = clusterLevels([k \in 1..Len(lows) |-> F(bts[lows[k]].low)],
                                            tolerance)
                     /\ ret.seq = clusterLevels([k \in 1..Len(highs) |-> F(bts[highs[k]].high)],
                                                tolerance)

\* five bars stored in order, lookback 1: the second and the fourth bar share
\* the lowest low of their windows, the third has the highest high; tolerance 0
\* keeps the two equal lows in one cluster
C27_Witness ==
    /\ Called("FindSupportResistanceLevels")
    /\ call.args = <<1, Zero>>
    /\ Len(bts) = 5
    /\ LowPivots(bts, 1) = {2, 4}
    /\ HighPivots(bts, 1) = {3}
    /\ bts[2].low = bts[4].low
    /\ out = <<F(bts[2].low)>>
    /\ ret.seq = <<F(bts[3].high)>>

\* the population standard deviation of v: the root of the mean squared
\* distance to the mean of v
PopulationStdDev(v) ==
    Sqrt(RDiv(TotalSquares(v, RDiv(Total(v), F(Len(v)))), F(Len(v))))

\* C28: with len >= period and factor f >= 0 the three bands have
\* len - period + 1 elements each; element k is computed over the closes
\* k .. k+period-1: middle[k] is their mean and equals element k of
\* CalculateMovingAverage, upper[k] - middle[k] = middle[k] - lower[k] =
\* f * their population standard deviation, so lower <= middle <= upper; with
\* len < period all three are empty.
C28_BollingerBands ==
    Called("CalculateBollingerBands") =>
        LET period == call.args[1]
            f == call.args[2]
            prices == GetClosePrices(bts)
            b == ret.bands
        IN  IF Len(prices) < period THEN b = EmptyBands /\ ret.seq = <<>>
            ELSE /\ Len(b.Upper) = Len(prices) - period + 1
                 /\ Len(b.Middle) = Len(prices) - period + 1
                 /\ Len(b.Lower) = Len(prices) - period + 1
                 /\ b.Middle = ret.seq
                 /\ \A k \in 1..Len(b.Middle) :
                       LET window == SubSeq(prices, k, k + period - 1)
                       IN  /\ b.Middle[k] = RDiv(Total(window), F(period))
                           /\ RSub(b.Upper[k], b.Middle[k]) = RMul(f, PopulationStdDev(window))
                           /\ RSub(b.Middle[k], b.Lower[k]) = RMul(f, PopulationStdDev(window))
                           /\ RLe(b.Lower[k], b.Middle[k])
                           /\ RLe(b.Middle[k], b.Upper[k])

\* closes 1, 2, 3, 1 with period 2 and factor 2: means 3/2, 5/2, 2 and
\* deviations 1/2, 1/2, 1
C28_Witness ==
    /\ Called("CalculateBollingerBands")
    /\ call.args = <<2, F(2)>>
    /\ GetClosePrices(bts) = <<F(1), F(2), F(3), F(1)>>
    /\ ret.bands.Middle = <<<<3, 2>>, <<5, 2>>, F(2)>>
    /\ ret.bands.Upper = <<<<5, 2>>, <<7, 2>>, F(4)>>
    /\ ret.bands.Lower = <<<<1, 2>>, <<3, 2>>, Zero>>

\* the keys of a map
Keys(m) == {e[1] : e \in m}

\* some daily return of the series is negative: a close below a positive
\* previous close
SomeNegativeReturn(b) ==
    \E i \in 1..(Len(b) - 1) : b[i].close > 0 /\ b[i + 1].close < b[i].close

\* C29: GetRiskMetrics returns an empty mapping for fewer than 30 points; for
\* 30 or more it holds volatility_annual, max_drawdown, sharpe_ratio, var_95,
\* var_95_annual, cvar_95 and beta_estimate, and the key sortino_ratio is
\* absent, not present with value 0, when no return is negative.
C29_RiskMetricKeys ==
    Called("GetRiskMetrics") =>
        IF Len(bts) < 30 THEN ret.map = {}
        ELSE /\ {"volatility_annual", "max_drawdown", "sharpe_ratio", "var_95",
                 "var_95_annual", "cvar_95", "beta_estimate"} \subseteq Keys(ret.map)
             /\ \A e1, e2 \in ret.map : e1[1] = e2[1] => e1 = e2
             /\ ~SomeNegativeReturn(bts) => "sortino_ratio" \notin Keys(ret.map)

\* 30 points that rise once, at the last but one: seven keys, no Sortino ratio
C29_Witness ==
    /\ Called("GetRiskMetrics")
    /\ Len(bts) = 30
    /\ bts[29].close > bts[28].close /\ bts[30].close = bts[29].close
    /\ Cardinality(ret.map) = 7
    /\ "sortino_ratio" \notin Keys(ret.map)
    /\ HasKey(ret.map, "cvar_95") /\ RLt(Zero, ValueOf(ret.map, "volatility_annual"))

\* 31 points whose last two closes fall by different fractions: the Sortino
\* ratio is present
C29_SortinoPresent ==
    /\ Called("GetRiskMetrics")
    /\ Len(bts) = 31
    /\ Cardinality(ret.map) = 8
    /\ RLt(ValueOf(ret.map, "sortino_ratio"), Zero)

\* no index is listed under both keys of the map
NeverBoth(m, name1, name2) == Listed(m, name1) \cap Listed(m, name2) = {}

CandlestickOppositesExclusive ==
    Called("DetectCandlestickPatterns") =>
        /\ NeverBoth(ret.map, "hammer", "shooting_star")
        /\ NeverBoth(ret.map, "bullish_engulfing", "bearish_engulfing")
        /\ NeverBoth(ret.map, "morning_star", "evening_star")

\* C30 as stated: for every input series no bar index is listed under both
\* hammer and shooting_star, both engulfing patterns or both stars by
\* DetectCandlestickPatterns, nor under both volume_breakout and
\* volume_selloff by DetectVolumePatterns.
C30_OppositesExclusiveAlways ==
    /\ CandlestickOppositesExclusive
    /\ Called("DetectVolumePatterns") =>
          NeverBoth(ret.map, "volume_breakout", "volume_selloff")

\* C30: the candlestick opposites exclude each other for every series;
\* volume_breakout and volume_selloff exclude each other at every index whose
\* previous bar does not close below 0.
C30_OppositesExclusive ==
    /\ CandlestickOppositesExclusive
    /\ Called("DetectVolumePatterns") =>
          \A i \in Listed(ret.map, "volume_breakout") \cap Listed(ret.map, "volume_selloff") :
              At(bts, i - 1).close < 0

\* 20 bars, the last one with a volume spike and a close 25% above the
\* previous one: listed as breakout and not as selloff
C30_Witness ==
    /\ Called("DetectVolumePatterns")
    /\ Len(bts) = 20
    /\ bts[19].close = 4 /\ bts[20].close = 5
    /\ Listed(ret.map, "volume_breakout") = {19}
    /\ Listed(ret.map, "volume_selloff") = {}

\* a hammer and a long rising candle that engulfs the falling one before it:
\* each listed under its own label only
C30_CandlestickCase ==
    /\ Called("DetectCandlestickPatterns")
    /\ Listed(ret.map, "bullish_engulfing") = {1}
    /\ Listed(ret.map, "bearish_engulfing") = {}

===========================================================================
